---- MODULE Spec2Model ----
(***************************************************************************)
(* Digital Twin Data Integration Platform: the ingestion path of the MQTT  *)
(* and OPC UA adapters, the equipment registry and connectivity state, the *)
(* application lifecycle and the read-side health derivation.              *)
(*                                                                         *)
(* Every handler of the program is an `async def` running on one asyncio   *)
(* event loop; the database calls inside them are synchronous.  A handler  *)
(* therefore runs from its start to its end without another handler        *)
(* running in between (there is no await that suspends inside              *)
(* _store_sensor_data or inside a REST endpoint).  The model keeps the     *)
(* position of each adapter's handler, so that the database state between  *)
(* the two commits of _store_sensor_data is a state of the model, and      *)
(* LoopFree states the event loop's scheduling.  Wall-clock time passes    *)
(* at any moment, also inside a handler.                                   *)
(***************************************************************************)
EXTENDS Integers, Sequences, FiniteSets, TLC

\* ------------------------------------------------------------- universe

\* Bounds of the model.
MaxTicks == 1
MaxReadings == 2
MaxRequests == 2
MaxEvents == 2
MaxInbox == 1
MaxRows == 3
MaxSame == 6
MaxOutliers == 2
MaxSteady == 11
MaxElapsed == 3
MaxForwarded == 4
\* settings.RATE_LIMIT_PER_MINUTE is 100; the model scales the limit down.
RATE_LIMIT_PER_MINUTE == 2

\* Program constants.
StalenessWindow == 300
NoHeartbeat == -1

EquipmentIds == {"e1", "e2"}
SensorTypes == {"temperature"}
NodeIds == {"n1"}
Values == {1, 2}
\* The decoded MQTT payloads delivered: {value, quality} with the arrival
\* time as timestamp, and {value, timestamp, quality} with its own timestamp.
Payloads ==
    {[value |-> 1, quality |-> "GOOD", has_timestamp |-> FALSE, timestamp |-> 0],
     [value |-> 2, quality |-> "BAD", has_timestamp |-> TRUE, timestamp |-> 0]}
Adapters == {"mqtt", "opcua"}
\* Clock advances chosen so that heartbeat ages of 0, 299 and 300 s occur.
TickSteps == {StalenessWindow - 1, StalenessWindow}

\* Equipment.connection_config of the registered OPC UA equipment:
\* config['node_ids'] is a list of {node_id, sensor_type}.
ConnectionConfig(e) ==
    IF e = "e1" THEN <<[node_id |-> "n1", sensor_type |-> "temperature"]>>
    ELSE <<>>

Protocol(e) == IF e = "e1" THEN "OPC_UA" ELSE "MQTT"

VARIABLES
    now,              \* datetime.utcnow(), in seconds
    ticks,            \* number of clock advances so far (bounds the model)
    app,              \* lifespan: "startup_mqtt", "startup_opcua", "running", "failed", "stopped"
    equipment,        \* table equipment, keyed by Equipment.equipment_id
    sensors,          \* table sensors: the (equipment, type) pairs that have a Sensor row
    sensor_data,      \* table sensor_data, in insertion order
    mqtt_is_connected,   \* MQTTService.is_connected
    mqtt_loop,           \* the _process_messages task: "none", "running", "terminated"
    opcua_is_connected,  \* OPCUAService.is_connected
    subscribed_topics,   \* MQTTService.subscribed_topics, by their channel segment
    opcua_subscription,  \* OPCUAService.subscription is set
    monitored_nodes,     \* OPCUAService.monitored_nodes: node id -> node info (or NoNode)
    task,             \* position of each adapter's message handler
    attempts,         \* connect() calls made per adapter
    failures,         \* transport failures seen per adapter
    receipts,         \* per equipment, the latest clock reading an ingest took for its heartbeat
    requests,         \* number of REST requests handled so far (bounds the model)
    connect_signalled,   \* the equipment a connect request was accepted for
    response,         \* the reply sent by the step taken last (NoResponse: it sent none)
    logged,           \* per adapter, the log record its handler emitted for the event it took last
    inbox,            \* per adapter, the events the transport has delivered and the handler has not taken yet
    published,        \* per adapter, the number of events delivered so far (an event's number)
    current,          \* per adapter, the number of the event its handler took last
    dropped,          \* per adapter, whether an event taken before the current one was dropped
    request,          \* the body of the data request served last
    result,           \* the reply of the data endpoint to it
    rate_requests,    \* RateLimiterMiddleware.requests: client ip -> times of its recorded requests
    client_ip         \* the client ip of the request the middleware dispatched last

vars == <<now, ticks, app, equipment, sensors, sensor_data, mqtt_is_connected,
          mqtt_loop, subscribed_topics, opcua_is_connected, opcua_subscription,
          monitored_nodes, task, attempts, failures, receipts, requests, connect_signalled,
          response, logged, inbox, published, current, dropped, request, result,
          rate_requests, client_ip>>

db == <<equipment, sensors, sensor_data>>
mqtt == <<mqtt_is_connected, mqtt_loop, subscribed_topics>>
opcua == <<opcua_is_connected, opcua_subscription, monitored_nodes>>
rest == <<requests, connect_signalled>>
feed == <<inbox, published, current, dropped>>
analytics == <<request, result>>
limiter == <<rate_requests, client_ip>>

\* The client addresses of the model; "unknown" is the key of a request
\* without a peer address.  NoClient: no request was dispatched yet.
NoClient == "<none>"
ClientIps == {"10.0.0.1", "10.0.0.2", "unknown"}

\* The levels of the log records the handlers emit; NoLog: no record.
NoLog == "none"
NoRequest == [endpoint |-> "none"]
NoResult == [endpoint |-> "none"]

NoNode == [sensor_type |-> "", equipment_id |-> ""]
NoEquipment ==
    [exists |-> FALSE, is_active |-> FALSE, is_connected |-> FALSE,
     last_heartbeat |-> NoHeartbeat, protocol |-> "", connection_config |-> <<>>]
\* Column defaults of Equipment: is_active True, is_connected False,
\* last_heartbeat NULL; protocol and connection_config come with the request.
NewEquipment ==
    [exists |-> TRUE, is_active |-> TRUE, is_connected |-> FALSE,
     last_heartbeat |-> NoHeartbeat, protocol |-> "", connection_config |-> <<>>]

\* The row of equipment e as it is registered: its protocol and connection
\* metadata are those of its EquipmentCreate body.
Registered(e) ==
    [NewEquipment EXCEPT !.protocol = Protocol(e),
                         !.connection_config = ConnectionConfig(e)]

\* A handler that is not running: the hints of the event it handled last
\* and what became of it.
IdleTask(e, s, outcome) ==
    [value |-> 0, quality |-> "", timestamp |-> 0, sensor_type |-> s,
     equipment_id |-> e, outcome |-> outcome, pc |-> "idle", recv |-> 0,
     stamp |-> 0]

NoRow == [is_connected |-> FALSE, last_heartbeat |-> NoHeartbeat,
          health_status |-> "-"]
NoHealth == [e \in EquipmentIds |-> NoRow]
NoServices == [a \in Adapters |-> FALSE]
NoResponse ==
    [timestamp |-> 0, status |-> 0, health |-> NoHealth,
     services |-> NoServices]
Reply(code) ==
    [timestamp |-> 0, status |-> code, health |-> NoHealth,
     services |-> NoServices]

\* The application at the start of lifespan, over a registry that holds the
\* equipment table and the (equipment, sensor type) pairs given and no data.
StartupOver(table, registered) ==
    /\ now = 0
    /\ ticks = 0
    /\ app = "startup_mqtt"
    /\ equipment = table
    /\ sensors = registered
    /\ sensor_data = <<>>
    /\ mqtt_is_connected = FALSE
    /\ mqtt_loop = "none"
    /\ subscribed_topics = {}
    /\ opcua_is_connected = FALSE
    /\ opcua_subscription = FALSE
    /\ monitored_nodes = [n \in NodeIds |-> NoNode]
    /\ task = [a \in Adapters |-> IdleTask("", "", "none")]
    /\ receipts = [e \in EquipmentIds |-> NoHeartbeat]
    /\ attempts = [a \in Adapters |-> 0]
    /\ failures = [a \in Adapters |-> 0]
    /\ requests = 0
    /\ connect_signalled = {}
    /\ response = NoResponse
    /\ logged = [a \in Adapters |-> NoLog]
    /\ inbox = [a \in Adapters |-> <<>>]
    /\ published = [a \in Adapters |-> 0]
    /\ current = [a \in Adapters |-> 0]
    /\ dropped = [a \in Adapters |-> FALSE]
    /\ request = NoRequest
    /\ result = NoResult
    /\ rate_requests = [c \in ClientIps |-> <<>>]
    /\ client_ip = NoClient

\* The registry holds the equipment ids given, each as it is registered.
Startup(ids, registered) ==
    StartupOver([e \in EquipmentIds |->
                    IF e \in ids THEN Registered(e) ELSE NoEquipment],
                registered)

Init == Startup({"e1"}, {<<"e1", "temperature">>})

\* ----------------------------------------------------------- scheduling

Running(a) == task[a].pc # "idle"

\* Faulty variant of LoopFree: the handler suspends between its steps (as it would
\* with an awaited database call), so the other adapter's handler runs in
\* between.
LoopFreeSuspending(a) == TRUE

\* Adapter a's handler may take a step: no other handler is in the middle of
\* its run (one event loop, no suspension point inside a handler).
LoopFree(a) == \A b \in Adapters \ {a} : ~Running(b)

\* A REST endpoint may run: no handler is in the middle of its run.
LoopIdle == \A a \in Adapters : ~Running(a)

\* Wall-clock time passes.
Tick ==
    /\ UNCHANGED <<logged, feed, analytics, limiter>>
    /\ ticks < MaxTicks
    /\ \E d \in TickSteps : now' = now + d
    /\ ticks' = ticks + 1
    /\ UNCHANGED <<app, db, mqtt, opcua, task, attempts, failures, receipts, rest>>
    /\ response' = NoResponse

\* ------------------------------------------------------------ lifecycle

Alive == app \in {"startup_mqtt", "startup_opcua", "running"}

\* MQTTService.connect, awaited by lifespan.  ok: the broker accepts the
\* connection; subs: the topics whose subscribe call succeeds (a failed
\* subscribe is logged and skipped).  On failure the exception is re-raised
\* and lifespan, which does not catch it, ends the startup.
MqttConnect(ok, subs) ==
    /\ UNCHANGED <<logged, feed, analytics, limiter>>
    /\ app = "startup_mqtt"
    /\ LoopIdle
    /\ attempts' = [attempts EXCEPT !["mqtt"] = @ + 1]
    /\    IF ok
          THEN /\ mqtt_is_connected' = TRUE
               /\ subscribed_topics' = subscribed_topics \cup subs
               /\ mqtt_loop' = "running"
               /\ app' = "startup_opcua"
               /\ UNCHANGED failures
          ELSE /\ mqtt_is_connected' = FALSE
               /\ failures' = [failures EXCEPT !["mqtt"] = @ + 1]
               /\ app' = "failed"
               /\ UNCHANGED <<subscribed_topics, mqtt_loop>>
    /\ UNCHANGED <<now, ticks, db, opcua, task, receipts, rest>>
    /\ response' = NoResponse

\* The order in which _setup_equipment_monitoring walks the query result.
EquipmentOrder == <<"e1", "e2">>

\* _monitor_equipment: every configured node with a node_id is subscribed
\* and entered in monitored_nodes under its node id.
RECURSIVE MonitorNodes(_, _, _)
MonitorNodes(nodes, e, cfg) ==
    IF cfg = <<>> THEN nodes
    ELSE MonitorNodes(
             [nodes EXCEPT ![Head(cfg).node_id] =
                 [sensor_type |-> Head(cfg).sensor_type, equipment_id |-> e]],
             e, Tail(cfg))

\* _setup_equipment_monitoring: the active OPC UA equipment, one by one.
RECURSIVE SetupEquipmentMonitoring(_, _)
SetupEquipmentMonitoring(nodes, order) ==
    IF order = <<>> THEN nodes
    ELSE LET e == Head(order)
             monitored == equipment[e].exists /\ equipment[e].is_active
                             /\ equipment[e].protocol = "OPC_UA"
         IN SetupEquipmentMonitoring(
                IF monitored
                THEN MonitorNodes(nodes, e, equipment[e].connection_config)
                ELSE nodes,
                Tail(order))

\* OPCUAService.connect, awaited by lifespan after the MQTT connect.  ok: the
\* server accepts the connection; sub: create_subscription succeeds (its
\* failure is logged inside _setup_subscriptions and connect still returns).
OpcuaConnect(ok, sub) ==
    /\ UNCHANGED <<logged, feed, analytics, limiter>>
    /\ app = "startup_opcua"
    /\ LoopIdle
    /\ attempts' = [attempts EXCEPT !["opcua"] = @ + 1]
    /\    IF ok
          THEN /\ opcua_is_connected' = TRUE
               /\ opcua_subscription' = sub
               /\ monitored_nodes' =
                     IF sub
                     THEN SetupEquipmentMonitoring(monitored_nodes, EquipmentOrder)
                     ELSE monitored_nodes
               /\ app' = "running"
               /\ UNCHANGED failures
          ELSE /\ opcua_is_connected' = FALSE
               /\ failures' = [failures EXCEPT !["opcua"] = @ + 1]
               /\ app' = "failed"
               /\ UNCHANGED <<opcua_subscription, monitored_nodes>>
    /\ UNCHANGED <<now, ticks, db, mqtt, task, receipts, rest>>
    /\ response' = NoResponse

\* The broker connection breaks while _process_messages iterates
\* client.messages: the exception is logged and the task ends.
MqttStreamError ==
    /\ UNCHANGED <<logged, feed, analytics, limiter>>
    /\ Alive
    /\ mqtt_loop = "running"
    /\ LoopIdle
    /\ mqtt_loop' = "terminated"
    /\ failures' = [failures EXCEPT !["mqtt"] = @ + 1]
    /\ UNCHANGED <<now, ticks, app, db, mqtt_is_connected, subscribed_topics,
                   opcua, task, attempts, receipts, rest>>
    /\ response' = NoResponse

\* lifespan's shutdown: MQTTService.disconnect, then OPCUAService.disconnect.
\* Each clears is_connected only when it was connected and the transport
\* call does not raise (okM, okO).
Shutdown(okM, okO) ==
    /\ UNCHANGED <<logged, feed, analytics, limiter>>
    /\ app = "running"
    /\ LoopIdle
    /\ app' = "stopped"
    /\ mqtt_is_connected' = (mqtt_is_connected /\ ~okM)
    /\ opcua_is_connected' = (opcua_is_connected /\ ~okO)
    /\ mqtt_loop' = IF mqtt_loop = "running" THEN "terminated" ELSE mqtt_loop
    /\ UNCHANGED <<now, ticks, db, subscribed_topics, opcua_subscription,
                   monitored_nodes, task, attempts, failures, receipts, rest>>
    /\ response' = NoResponse

\* ------------------------------------------------------------ ingestion

Reading(e, s, v, ts, q, proto) ==
    [value |-> v, quality |-> q, timestamp |-> ts, sensor_type |-> s,
     equipment_id |-> e, source_protocol |-> proto]

\* db.query(Equipment).filter(Equipment.equipment_id == equipment_id).first()
FindEquipment(e) == equipment[e].exists

\* Faulty variant of FindSensor: the filter on Sensor.equipment_id is left out.
FindSensorOfAnyEquipment(e, s) == \E x \in EquipmentIds : <<x, s>> \in sensors

\* db.query(Sensor).filter(Sensor.equipment_id == equipment.id,
\*                         Sensor.type == sensor_type).first()
FindSensor(e, s) == <<e, s>> \in sensors

\* Faulty variant of StoreBegin: the equipment is marked seen as soon as it is
\* found, before the sensor lookup and the SensorData commit.
StoreBeginMarksSeenFirst(a, e, s, v, ts, q, proto) ==
    IF ~FindEquipment(e)
    THEN /\ task' = [task EXCEPT ![a] = IdleTask(e, s, "equipment_not_found")]
         /\ logged' = [logged EXCEPT ![a] = "warning"]
         /\ UNCHANGED db
    ELSE /\ equipment' = [equipment EXCEPT ![e].is_connected = TRUE,
                                           ![e].last_heartbeat = now]
         /\ IF ~FindSensor(e, s)
            THEN /\ task' = [task EXCEPT ![a] = IdleTask(e, s, "sensor_not_found")]
                 /\ logged' = [logged EXCEPT ![a] = "warning"]
                 /\ UNCHANGED <<sensors, sensor_data>>
            ELSE /\ sensor_data' =
                       Append(sensor_data, Reading(e, s, v, ts, q, proto))
                 /\ task' = [task EXCEPT ![a] =
                                [value |-> v, quality |-> q, timestamp |-> ts,
                                 sensor_type |-> s, equipment_id |-> e,
                                 outcome |-> "pending", pc |-> "heartbeat",
                                 recv |-> now, stamp |-> 0]]
                 /\ logged' = [logged EXCEPT ![a] = NoLog]
                 /\ UNCHANGED sensors

\* Faulty variant of Added: the row of the sensor's latest reading is
\* overwritten (an upsert per sensor); a first reading is added.
Merged(rows, row) ==
    IF \E i \in 1..Len(rows) : /\ rows[i].equipment_id = row.equipment_id
                               /\ rows[i].sensor_type = row.sensor_type
    THEN LET last == CHOOSE i \in 1..Len(rows) :
                        /\ rows[i].equipment_id = row.equipment_id
                        /\ rows[i].sensor_type = row.sensor_type
                        /\ \A j \in i + 1..Len(rows) :
                              \/ rows[j].equipment_id # row.equipment_id
                              \/ rows[j].sensor_type # row.sensor_type
         IN [rows EXCEPT ![last] = row]
    ELSE Append(rows, row)

\* db.add(sensor_data); db.commit(): a new row after the rows of the table.
Added(rows, row) == Append(rows, row)

\* _store_sensor_data up to its first commit: look the equipment and the
\* sensor up, return when either is missing, else add the SensorData row and
\* commit it.
StoreBegin(a, e, s, v, ts, q, proto) ==
    IF ~FindEquipment(e)
    THEN /\ task' = [task EXCEPT ![a] = IdleTask(e, s, "equipment_not_found")]
         /\ logged' = [logged EXCEPT ![a] = "warning"]
         /\ UNCHANGED db
    ELSE IF ~FindSensor(e, s)
    THEN /\ task' = [task EXCEPT ![a] = IdleTask(e, s, "sensor_not_found")]
         /\ logged' = [logged EXCEPT ![a] = "warning"]
         /\ UNCHANGED db
    ELSE /\ sensor_data' = Added(sensor_data, Reading(e, s, v, ts, q, proto))
         /\ task' = [task EXCEPT ![a] =
                        [value |-> v, quality |-> q, timestamp |-> ts,
                         sensor_type |-> s, equipment_id |-> e,
                         outcome |-> "pending", pc |-> "heartbeat",
                         recv |-> now, stamp |-> 0]]
         /\ logged' = [logged EXCEPT ![a] = NoLog]
         /\ UNCHANGED <<equipment, sensors>>

Max(x, y) == IF x >= y THEN x ELSE y

\* equipment.last_heartbeat = datetime.utcnow(): the clock is read.
StoreStamp(a) ==
    /\ UNCHANGED <<logged, feed, analytics, limiter>>
    /\ task[a].pc = "heartbeat"
    /\ LoopFree(a)
    /\ task' = [task EXCEPT ![a].pc = "commit", ![a].stamp = now]
    /\ receipts' = [receipts EXCEPT ![task[a].equipment_id] = Max(@, now)]
    /\ UNCHANGED <<now, ticks, app, db, mqtt, opcua, attempts, failures, rest>>
    /\ response' = NoResponse

\* Faulty variant of Heartbeat: the event's own timestamp instead of the clock.
HeartbeatFromEventTimestamp(a) == task[a].timestamp

\* The heartbeat written by the second commit.
Heartbeat(a) == task[a].stamp

\* equipment.is_connected = True and the second commit.
StoreCommit(a) ==
    /\ logged' = [logged EXCEPT ![a] = "debug"]
    /\ UNCHANGED <<feed, analytics, limiter>>
    /\ task[a].pc = "commit"
    /\ LoopFree(a)
    /\ equipment' = [equipment EXCEPT
                        ![task[a].equipment_id].last_heartbeat = Heartbeat(a),
                        ![task[a].equipment_id].is_connected = TRUE]
    /\ task' = [task EXCEPT ![a] =
                   IdleTask(task[a].equipment_id, task[a].sensor_type, "stored")]
    /\ UNCHANGED <<now, ticks, app, sensors, sensor_data, mqtt, opcua,
                   attempts, failures, receipts, rest>>
    /\ response' = NoResponse

\* --------------------------------------------------- decoding an event

\* float() results that are not finite numbers, kept apart from the finite
\* values of the model.
NaN == 9998
Infinity == 9999

\* What an event carries as its value: a JSON number, a string holding a
\* number, a string holding none, NaN or Infinity (json.loads accepts both
\* literals, float() both spellings), a list, or nothing (key absent, null,
\* None).
NumValue(v) == [kind |-> "number", num |-> v]
TextValue == [kind |-> "text", num |-> 0]
NaNValue == [kind |-> "nan", num |-> 0]
InfValue == [kind |-> "infinity", num |-> 0]
ListValue == [kind |-> "list", num |-> 0]
NoValue == [kind |-> "absent", num |-> 0]
NumericString(v) == [kind |-> "numeric_string", num |-> v]

\* The result of a conversion: the value, or the exception it raised.
Raised == [v |-> 0, raised |-> TRUE]
Returned(v) == [v |-> v, raised |-> FALSE]

\* float(value) of _handle_message: ValueError on a string that holds no
\* number, TypeError on a list; NaN and Infinity convert.
FloatOf(value) ==
    CASE value.kind \in {"number", "numeric_string"} -> Returned(value.num)
      [] value.kind = "nan" -> Returned(NaN)
      [] value.kind = "infinity" -> Returned(Infinity)
      [] OTHER -> Raised

\* The payload's timestamp key: absent, an ISO string, a string that is no
\* ISO timestamp, or a JSON value that is no string (a number, null).
NoTimestamp == [kind |-> "absent", t |-> 0]
IsoTimestamp(t) == [kind |-> "iso", t |-> t]
BadTimestamp == [kind |-> "unparsable", t |-> 0]
NumTimestamp == [kind |-> "number", t |-> 0]

\* datetime.fromisoformat(payload.get('timestamp',
\* datetime.utcnow().isoformat()).replace('Z', '+00:00')): the default is the
\* arrival time; fromisoformat raises ValueError on a string it cannot
\* parse, and .replace raises AttributeError on a value that is no string.
ParseTimestamp(ts, arrival) ==
    CASE ts.kind = "absent" -> Returned(arrival)
      [] ts.kind = "iso" -> Returned(ts.t)
      [] OTHER -> Raised

\* payload.get('quality', 'GOOD')
NoQuality == "<absent>"
QualityOf(q) == IF q = NoQuality THEN "GOOD" ELSE q

\* An MQTT message: the segments of its topic, whether its payload decodes
\* to a JSON object ("object"), to another JSON value ("scalar") or not at
\* all ("malformed"), and the object's keys.
Message(e, s, body, value, ts, q) ==
    [value |-> value, quality |-> q, timestamp |-> ts, body |-> body,
     topic |-> <<"equipment", e, s>>]

\* The handler returns without a log record.
Skipped(a, e, s, outcome) ==
    /\ task' = [task EXCEPT ![a] = IdleTask(e, s, outcome)]
    /\ logged' = [logged EXCEPT ![a] = NoLog]
    /\ UNCHANGED db

\* The handler returns after logging a record of the given level.
Logged(a, e, s, outcome, level) ==
    /\ task' = [task EXCEPT ![a] = IdleTask(e, s, outcome)]
    /\ logged' = [logged EXCEPT ![a] = level]
    /\ UNCHANGED db

\* _store_sensor_data up to its first commit, with the store's answer:
\* when a query or the commit raises (fault), the except block logs the
\* error and the handler returns; no row was committed.
StoreBeginOrFault(a, e, s, v, ts, q, proto, fault) ==
    IF fault THEN Logged(a, e, s, "store_error", "error")
    ELSE StoreBegin(a, e, s, v, ts, q, proto)

\* Faulty variant of AfterHandlerError: the exception leaves _handle_message
\* and ends the iteration of _process_messages.
AfterHandlerErrorPropagated(loop) == "terminated"

\* The message loop after _handle_message caught an exception: the except
\* block (lines 103-104) logs and returns, the loop takes the next message.
AfterHandlerError(loop) == loop

\* _handle_message.
HandleMessage(msg, fault) ==
    LET e == IF Len(msg.topic) >= 3 THEN msg.topic[2] ELSE ""
        s == IF Len(msg.topic) >= 3 THEN msg.topic[3] ELSE ""
        value == FloatOf(msg.value)
        timestamp == ParseTimestamp(msg.timestamp, now)
    IN IF Len(msg.topic) < 3
       THEN Skipped("mqtt", e, s, "short_topic") /\ UNCHANGED mqtt_loop
       ELSE IF msg.body # "object"
       THEN /\ Logged("mqtt", e, s, "bad_payload", "error")
            /\ mqtt_loop' = AfterHandlerError(mqtt_loop)
       ELSE IF msg.value.kind = "absent"
       THEN Skipped("mqtt", e, s, "no_value") /\ UNCHANGED mqtt_loop
       ELSE IF value.raised
       THEN /\ Logged("mqtt", e, s, "bad_value", "error")
            /\ mqtt_loop' = AfterHandlerError(mqtt_loop)
       ELSE IF timestamp.raised
       THEN /\ Logged("mqtt", e, s, "bad_timestamp", "error")
            /\ mqtt_loop' = AfterHandlerError(mqtt_loop)
       ELSE /\ StoreBeginOrFault("mqtt", e, s, value.v, timestamp.v,
                                 QualityOf(msg.quality), "MQTT", fault)
            /\ UNCHANGED mqtt_loop

\* Faulty variant of NumericValue: a value that does not convert counts
\* as 0.
NumericValueOrZero(value) ==
    CASE value.kind \in {"number", "numeric_string"} -> Returned(value.num)
      [] value.kind = "nan" -> Returned(NaN)
      [] value.kind = "infinity" -> Returned(Infinity)
      [] OTHER -> Returned(0)

\* _process_node_data's conversion: an int or float (NaN and Infinity are
\* floats) is taken as it is, anything else goes through float(str(value)),
\* whose ValueError is logged as a warning.
NumericValue(value) ==
    CASE value.kind \in {"number", "numeric_string"} -> Returned(value.num)
      [] value.kind = "nan" -> Returned(NaN)
      [] value.kind = "infinity" -> Returned(Infinity)
      [] OTHER -> Raised

\* datachange_notification and _process_node_data: the notification's
\* timestamp is the receipt time, its quality GOOD.
ProcessNodeData(n, value, fault) ==
    LET info == monitored_nodes[n]
        numeric_value == NumericValue(value)
    IN IF info = NoNode
       THEN Skipped("opcua", "", "", "unmonitored")
       ELSE IF numeric_value.raised
       THEN Logged("opcua", info.equipment_id, info.sensor_type, "bad_value",
                   "warning")
       ELSE StoreBeginOrFault("opcua", info.equipment_id, info.sensor_type,
                              numeric_value.v, now, "GOOD", "OPC_UA", fault)

\* The second commit raises: the except block logs the error; the SensorData
\* row of the first commit stays, the equipment row is not written.
StoreCommitFault(a) ==
    /\ task[a].pc = "commit"
    /\ LoopFree(a)
    /\ Logged(a, task[a].equipment_id, task[a].sensor_type, "store_error",
              "error")
    /\ UNCHANGED <<now, ticks, app, mqtt, opcua, attempts, failures, receipts,
                   rest, response, feed, analytics, limiter>>

\* The message of the model's decoded payload p for equipment e, channel s.
Decoded(e, s, p) ==
    Message(e, s, "object", NumValue(p.value),
            IF p.has_timestamp THEN IsoTimestamp(p.timestamp) ELSE NoTimestamp,
            p.quality)

\* _process_messages takes the next message, one of msgs on a subscribed
\* topic, and _handle_message decodes it.
MqttReceive(msgs) ==
    /\ UNCHANGED <<feed, analytics, limiter>>
    /\ Alive
    /\ mqtt_loop = "running"
    /\ task["mqtt"].pc = "idle"
    /\ LoopFree("mqtt")
    /\ Len(sensor_data) < MaxReadings
    /\ \E msg \in msgs :
          /\ msg.topic[3] \in subscribed_topics
          /\ HandleMessage(msg, FALSE)
    /\ UNCHANGED <<now, ticks, app, mqtt_is_connected, subscribed_topics, opcua,
                   attempts, failures, receipts, rest>>
    /\ response' = NoResponse

\* The messages of the model's payloads: topic equipment/{e}/{s}, payload
\* {value, timestamp?, quality?}; a payload without a timestamp gets the
\* arrival time.
MqttDeliver ==
    MqttReceive({Decoded(e, s, p) :
                    e \in EquipmentIds, s \in SensorTypes, p \in Payloads})

\* The subscription notifies a data change of a node.
OpcuaNotify ==
    /\ UNCHANGED <<feed, analytics, limiter>>
    /\ Alive
    /\ opcua_subscription
    /\ task["opcua"].pc = "idle"
    /\ LoopFree("opcua")
    /\ Len(sensor_data) < MaxReadings
    /\ \E n \in NodeIds, v \in Values : ProcessNodeData(n, NumValue(v), FALSE)
    /\ UNCHANGED <<now, ticks, app, mqtt, opcua, attempts, failures, receipts, rest>>
    /\ response' = NoResponse

\* ------------------------------------------------- the transports' feed

\* The MQTT messages the broker delivers: their topics match a subscribed
\* filter equipment/+/{channel}; a well-formed event of the registered
\* equipment, events of an unknown equipment, payloads that do not decode,
\* payloads without a value, values that are no finite number, timestamps
\* that do not parse.
Messages ==
    {Message("e1", "temperature", "object", NumValue(1), NoTimestamp, NoQuality),
     Message("e1", "temperature", "object", NumericString(2), IsoTimestamp(7), "BAD"),
     Message("e2", "temperature", "object", NumValue(1), NoTimestamp, NoQuality),
     Message("e1", "temperature", "malformed", NoValue, NoTimestamp, NoQuality),
     Message("e1", "temperature", "object", NoValue, NoTimestamp, "GOOD"),
     Message("e1", "temperature", "object", TextValue, NoTimestamp, NoQuality),
     Message("e1", "temperature", "object", NaNValue, NoTimestamp, NoQuality),
     Message("e1", "temperature", "object", InfValue, NoTimestamp, NoQuality),
     Message("e1", "temperature", "object", NumValue(1), BadTimestamp, NoQuality),
     Message("e1", "temperature", "object", NumValue(1), NumTimestamp, NoQuality)}

\* The values an OPC UA node reports.
NodeValues == {NumValue(1), TextValue, NaNValue, InfValue, NoValue}

\* The outcomes of a handler run that stored no Reading or did not finish
\* the ingest.
DropOutcomes ==
    {"short_topic", "bad_payload", "no_value", "bad_value", "bad_timestamp",
     "equipment_not_found", "sensor_not_found", "unmonitored", "store_error"}

\* The broker delivers a message to the connected client.
MqttPublish ==
    /\ Alive
    /\ mqtt_is_connected
    /\ published["mqtt"] < MaxEvents
    /\ Len(inbox["mqtt"]) < MaxInbox
    /\ \E msg \in Messages :
          /\ msg.topic[3] \in subscribed_topics
          /\ inbox' = [inbox EXCEPT !["mqtt"] =
                          Append(@, [msg |-> msg, id |-> published["mqtt"] + 1])]
    /\ published' = [published EXCEPT !["mqtt"] = @ + 1]
    /\ response' = NoResponse
    /\ UNCHANGED <<now, ticks, app, db, mqtt, opcua, task, attempts, failures,
                   receipts, rest, logged, current, dropped, analytics, limiter>>

\* The server reports a data change of a subscribed node.
OpcuaPublish ==
    /\ Alive
    /\ opcua_subscription
    /\ published["opcua"] < MaxEvents
    /\ Len(inbox["opcua"]) < MaxInbox
    /\ \E n \in NodeIds, value \in NodeValues :
          /\ monitored_nodes[n] # NoNode
          /\ inbox' = [inbox EXCEPT !["opcua"] =
                          Append(@, [value |-> value,
                                     id |-> published["opcua"] + 1, node |-> n])]
    /\ published' = [published EXCEPT !["opcua"] = @ + 1]
    /\ response' = NoResponse
    /\ UNCHANGED <<now, ticks, app, db, mqtt, opcua, task, attempts, failures,
                   receipts, rest, logged, current, dropped, analytics, limiter>>

\* Adapter a's handler takes the next delivered event.
Taken(a) ==
    /\ inbox' = [inbox EXCEPT ![a] = Tail(@)]
    /\ current' = [current EXCEPT ![a] = Head(inbox[a]).id]
    /\ dropped' = [dropped EXCEPT ![a] = @ \/ task[a].outcome \in DropOutcomes]
    /\ UNCHANGED published

\* _process_messages: async for message in self.client.messages:
\*                        await self._handle_message(message)
MqttNext ==
    /\ Alive
    /\ mqtt_loop = "running"
    /\ task["mqtt"].pc = "idle"
    /\ LoopFree("mqtt")
    /\ inbox["mqtt"] # <<>>
    /\ \E fault \in BOOLEAN : HandleMessage(Head(inbox["mqtt"]).msg, fault)
    /\ Taken("mqtt")
    /\ response' = NoResponse
    /\ UNCHANGED <<now, ticks, app, mqtt_is_connected, subscribed_topics, opcua,
                   attempts, failures, receipts, rest, analytics, limiter>>

\* The subscription calls datachange_notification for the next data change.
OpcuaNext ==
    /\ Alive
    /\ opcua_subscription
    /\ task["opcua"].pc = "idle"
    /\ LoopFree("opcua")
    /\ inbox["opcua"] # <<>>
    /\ \E fault \in BOOLEAN :
          ProcessNodeData(Head(inbox["opcua"]).node, Head(inbox["opcua"]).value,
                          fault)
    /\ Taken("opcua")
    /\ response' = NoResponse
    /\ UNCHANGED <<now, ticks, app, mqtt, opcua, attempts, failures, receipts,
                   rest, analytics, limiter>>

\* ------------------------------------------------------------- REST API

Serving == app = "running" /\ LoopIdle /\ requests < MaxRequests

\* POST /equipment: 400 when the equipment_id exists, else a new row with
\* the column defaults (EquipmentCreate carries no status field).
CreatedEquipment == NewEquipment

create_equipment(e) ==
    /\ UNCHANGED <<logged, feed, analytics, limiter>>
    /\ Serving
    /\ requests' = requests + 1
    /\ IF equipment[e].exists
       THEN /\ response' = Reply(400)
            /\ UNCHANGED equipment
       ELSE /\ equipment' = [equipment EXCEPT ![e] =
                                 [CreatedEquipment EXCEPT
                                     !.protocol = Protocol(e),
                                     !.connection_config = ConnectionConfig(e)]]
            /\ response' = Reply(200)
    /\ UNCHANGED <<now, ticks, app, sensors, sensor_data, mqtt, opcua, task,
                   attempts, failures, receipts, connect_signalled>>

\* POST /sensors: 404 when the equipment is unknown, else a new Sensor row.
create_sensor(e, s) ==
    /\ UNCHANGED <<logged, feed, analytics, limiter>>
    /\ Serving
    /\ requests' = requests + 1
    /\ IF ~equipment[e].exists
       THEN /\ response' = Reply(404)
            /\ UNCHANGED sensors
       ELSE /\ sensors' = sensors \cup {<<e, s>>}
            /\ response' = Reply(200)
    /\ UNCHANGED <<now, ticks, app, equipment, sensor_data, mqtt, opcua, task,
                   attempts, failures, receipts, connect_signalled>>

\* The fields of EquipmentUpdate that are state of the model: is_active,
\* "unset" when the request leaves it out (exclude_unset).
UpdateValues == {"unset", "true", "false"}

\* Faulty variant of UpdatedEquipment: the update also writes the status column.
UpdatedEquipmentWithStatus(row, active) ==
    IF active = "unset" THEN row
    ELSE [row EXCEPT !.is_active = (active = "true"),
                     !.is_connected = (active = "true")]

\* The row after setattr of every field the request sets.
UpdatedEquipment(row, active) ==
    IF active = "unset" THEN row
    ELSE [row EXCEPT !.is_active = (active = "true")]

\* PUT /equipment/{equipment_id}.
update_equipment(e, active) ==
    /\ UNCHANGED <<logged, feed, analytics, limiter>>
    /\ Serving
    /\ requests' = requests + 1
    /\ IF ~equipment[e].exists
       THEN /\ response' = Reply(404)
            /\ UNCHANGED equipment
       ELSE /\ equipment' = [equipment EXCEPT ![e] = UpdatedEquipment(@, active)]
            /\ response' = Reply(200)
    /\ UNCHANGED <<now, ticks, app, sensors, sensor_data, mqtt, opcua, task,
                   attempts, failures, receipts, connect_signalled>>

\* Faulty variant of Deactivated: the deactivation also clears the
\* connected flag.
DeactivatedAndDisconnected(row) ==
    [row EXCEPT !.is_active = FALSE, !.is_connected = FALSE]

\* equipment.is_active = False
Deactivated(row) == [row EXCEPT !.is_active = FALSE]

\* DELETE /equipment/{equipment_id}: a soft delete.
delete_equipment(e) ==
    /\ UNCHANGED <<logged, feed, analytics, limiter>>
    /\ Serving
    /\ requests' = requests + 1
    /\ IF ~equipment[e].exists
       THEN /\ response' = Reply(404)
            /\ UNCHANGED equipment
       ELSE /\ equipment' = [equipment EXCEPT ![e] = Deactivated(@)]
            /\ response' = Reply(200)
    /\ UNCHANGED <<now, ticks, app, sensors, sensor_data, mqtt, opcua, task,
                   attempts, failures, receipts, connect_signalled>>

\* POST /equipment/{equipment_id}/connect.
connect_equipment(e) ==
    /\ UNCHANGED <<logged, feed, analytics, limiter>>
    /\ Serving
    /\ requests' = requests + 1
    /\ IF ~equipment[e].exists
       THEN /\ response' = Reply(404)
            /\ UNCHANGED <<equipment, connect_signalled>>
       ELSE /\ equipment' = [equipment EXCEPT ![e].is_connected = TRUE,
                                              ![e].last_heartbeat = now]
            /\ connect_signalled' = connect_signalled \cup {e}
            /\ response' = Reply(200)
    /\ UNCHANGED <<now, ticks, app, sensors, sensor_data, mqtt, opcua, task,
                   attempts, failures, receipts>>

\* Python's truth value of time_since_heartbeat: None and 0.0 are false.
Truthy(age) == age # NoHeartbeat /\ age # 0

\* get_equipment_health's status of one equipment row at time t.
HealthStatus(row, t) ==
    LET time_since_heartbeat ==
            IF row.last_heartbeat # NoHeartbeat THEN t - row.last_heartbeat
            ELSE NoHeartbeat
    IN IF row.is_connected
       THEN IF Truthy(time_since_heartbeat)
               /\ time_since_heartbeat < StalenessWindow
            THEN "HEALTHY"
            ELSE "DEGRADED"
       ELSE "OFFLINE"

\* Faulty variant of EquipmentAfterHealth: an active equipment found
\* DEGRADED or OFFLINE is stored as disconnected.
EquipmentAfterHealthWrittenBack(table, t) ==
    [e \in DOMAIN table |->
        IF /\ table[e].exists
           /\ table[e].is_active
           /\ HealthStatus(table[e], t) \in {"DEGRADED", "OFFLINE"}
        THEN [table[e] EXCEPT !.is_connected = FALSE]
        ELSE table[e]]

\* The equipment table after get_equipment_health: the endpoint assigns no
\* attribute of a row and never commits.
EquipmentAfterHealth(table, t) == table

\* GET /monitoring/equipment-health: the active equipment and their status.
get_equipment_health ==
    /\ UNCHANGED <<logged, feed, analytics, limiter>>
    /\ Serving
    /\ requests' = requests + 1
    /\ equipment' = EquipmentAfterHealth(equipment, now)
    /\ response' =
          [status |-> 200,
           timestamp |-> now,
           health |-> [e \in EquipmentIds |->
                          IF equipment[e].exists /\ equipment[e].is_active
                          THEN [health_status |-> HealthStatus(equipment[e], now),
                                is_connected |-> equipment[e].is_connected,
                                last_heartbeat |-> equipment[e].last_heartbeat]
                          ELSE NoRow],
           services |-> NoServices]
    /\ UNCHANGED <<now, ticks, app, sensors, sensor_data, mqtt, opcua, task,
                   attempts, failures, receipts, connect_signalled>>

\* POST /monitoring/alerts/{alert_id}/acknowledge: 404 when no Alert row has
\* the id, else the Alert row is marked (the alerts table is not part of the
\* model's state).
acknowledge_alert(found) ==
    /\ UNCHANGED <<logged, feed, analytics, limiter>>
    /\ Serving
    /\ requests' = requests + 1
    /\ response' = Reply(IF found THEN 200 ELSE 404)
    /\ UNCHANGED <<now, ticks, app, db, mqtt, opcua, task, attempts, failures,
                   receipts, connect_signalled>>

\* GET /health: the adapters' is_connected flags.
health_check ==
    /\ UNCHANGED <<logged, feed, analytics, limiter>>
    /\ Serving
    /\ requests' = requests + 1
    /\ response' =
          [timestamp |-> 0, status |-> 200, health |-> NoHealth,
           services |-> [a \in Adapters |->
                            IF a = "mqtt" THEN mqtt_is_connected
                            ELSE opcua_is_connected]]
    /\ UNCHANGED <<now, ticks, app, db, mqtt, opcua, task, attempts, failures,
                   receipts, connect_signalled>>

\* ------------------------------------------------ POST /data/query

\* Text as the sequence of its characters, so that str.replace is computed.
Text1m == <<"1", "m">>
Text5m == <<"5", "m">>
Text15m == <<"1", "5", "m">>
Text1h == <<"1", "h">>
Text1d == <<"1", "d">>
TextWeek == <<"w", "e", "e", "k">>
TextMinute == <<"m", "i", "n", "u", "t", "e">>
TextHour == <<"h", "o", "u", "r">>
TextDay == <<"d", "a", "y">>

\* str.replace(old, new) for a one-character old.
RECURSIVE Replace(_, _, _)
Replace(text, old, new) ==
    IF text = <<>> THEN <<>>
    ELSE (IF Head(text) = old THEN new ELSE <<Head(text)>>)
             \o Replace(Tail(text), old, new)

\* query.interval.replace('h', ' hour').replace('m', ' minute')
\*               .replace('d', ' day')
TruncField(interval) ==
    Replace(Replace(Replace(interval, "h", <<" ">> \o TextHour),
                    "m", <<" ">> \o TextMinute),
            "d", <<" ">> \o TextDay)

SecondsPerMinute == 60
SecondsPerHour == 3600
SecondsPerDay == 86400
SecondsPerWeek == 604800
\* 1970-01-01 is a Thursday: the Monday of its week is three days earlier.
EpochWeekday == 3

\* PostgreSQL's date_trunc(field, timestamp), timestamps in seconds since
\* the epoch: the field is the name of a unit; a text that names no unit
\* ("1 hour", "5 minute") is an error of the statement.
DateTrunc(field, t) ==
    CASE field = TextMinute -> Returned(t - (t % SecondsPerMinute))
      [] field = TextHour -> Returned(t - (t % SecondsPerHour))
      [] field = TextDay -> Returned(t - (t % SecondsPerDay))
      [] field = TextWeek ->
            Returned(t - ((t + EpochWeekday * SecondsPerDay) % SecondsPerWeek))
      [] OTHER -> Raised

\* The rows of sensor_data, by index.
Rows == 1..Len(sensor_data)

\* The filters of the base query; an empty list of ids or types and a
\* missing time bound do not filter.
NoTime == -1
Matches(i, query) ==
    LET r == sensor_data[i]
    IN /\ query.equipment_ids # {} => r.equipment_id \in query.equipment_ids
       /\ query.sensor_types # {} => r.sensor_type \in query.sensor_types
       /\ query.start_time # NoTime => r.timestamp >= query.start_time
       /\ query.end_time # NoTime => r.timestamp <= query.end_time

RECURSIVE SumOf(_)
SumOf(I) ==
    IF I = {} THEN 0
    ELSE LET i == CHOOSE x \in I : TRUE
         IN sensor_data[i].value + SumOf(I \ {i})

MinOf(I) == CHOOSE v \in {sensor_data[i].value : i \in I} :
               \A i \in I : v <= sensor_data[i].value
MaxOf(I) == CHOOSE v \in {sensor_data[i].value : i \in I} :
               \A i \in I : v >= sensor_data[i].value

\* A number as a fraction, for the averages.
Fraction(n, d) == [num |-> n, den |-> d]

\* func.avg / func.min / func.max / func.count over the rows I of a group;
\* an aggregation name that the table does not hold falls back to avg.
Aggregate(aggregation, I) ==
    CASE aggregation = "min" -> Fraction(MinOf(I), 1)
      [] aggregation = "max" -> Fraction(MaxOf(I), 1)
      [] aggregation = "count" -> Fraction(Cardinality(I), 1)
      [] OTHER -> Fraction(SumOf(I), Cardinality(I))

\* The grouped statement: one result row per (equipment_id, type,
\* time_bucket) of the matching rows.
Grouped(query) ==
    LET M == {i \in Rows : Matches(i, query)}
        bucket(i) == DateTrunc(TruncField(query.interval),
                               sensor_data[i].timestamp).v
        key(i) == <<sensor_data[i].equipment_id, sensor_data[i].sensor_type,
                    bucket(i)>>
    IN {[equipment_id |-> sensor_data[i].equipment_id,
         sensor_type |-> sensor_data[i].sensor_type,
         time_bucket |-> bucket(i),
         value |-> Aggregate(query.aggregation,
                             {j \in M : key(j) = key(i)})] : i \in M}

\* The reply of query_sensor_data (skip 0, limit not reached).  The
\* statement's error is not caught by the endpoint: the request fails.
QueryResult(query) ==
    IF query.aggregation = "raw"
    THEN [endpoint |-> "query", status |-> 200, aggregation |-> "raw",
          data |-> {[value |-> sensor_data[i].value,
                     quality |-> sensor_data[i].quality,
                     timestamp |-> sensor_data[i].timestamp,
                     sensor_type |-> sensor_data[i].sensor_type,
                     equipment_id |-> sensor_data[i].equipment_id] :
                       i \in {j \in Rows : Matches(j, query)}}]
    ELSE IF DateTrunc(TruncField(query.interval), 0).raised
    THEN [endpoint |-> "query", status |-> 500,
          aggregation |-> query.aggregation, data |-> {}]
    ELSE [endpoint |-> "query", status |-> 200,
          aggregation |-> query.aggregation, data |-> Grouped(query)]

\* POST /data/query.  The endpoint only reads: its reply depends on the
\* store and the request alone, and one request per store is examined.
query_sensor_data(query) ==
    /\ request = NoRequest
    /\ request' = query
    /\ UNCHANGED limiter
    /\ result' = QueryResult(query)
    /\ UNCHANGED <<now, ticks, app, db, mqtt, opcua, task, attempts, failures,
                   receipts, rest, response, logged, feed>>

\* ---------------------------------------------- GET /data/statistics

\* The rows of the statistics: those of the last `hours` hours that pass the
\* filters (NoFilter: the parameter is left out).  The joins pair a row with
\* the sensors of its equipment; an equipment of the model has one.
NoFilter == "<none>"
StatisticsRows(params) ==
    {i \in Rows :
        /\ sensor_data[i].timestamp >= now - params.hours * SecondsPerHour
        /\ params.equipment_id # NoFilter
              => sensor_data[i].equipment_id = params.equipment_id
        /\ params.sensor_type # NoFilter
              => sensor_data[i].sensor_type = params.sensor_type}

\* The reply: count, average, minimum and maximum (0 when there is no row)
\* and the number of rows per quality; std_dev is left out of the model.
Statistics(params) ==
    LET I == StatisticsRows(params)
    IN [endpoint |-> "statistics", status |-> 200,
        count |-> Cardinality(I),
        average |-> IF I = {} THEN Fraction(0, 1)
                    ELSE Fraction(SumOf(I), Cardinality(I)),
        minimum |-> IF I = {} THEN 0 ELSE MinOf(I),
        maximum |-> IF I = {} THEN 0 ELSE MaxOf(I),
        quality_distribution |->
            [q \in {sensor_data[i].quality : i \in I} |->
                Cardinality({i \in I : sensor_data[i].quality = q})]]

\* GET /data/statistics.  The endpoint only reads.
get_data_statistics(params) ==
    /\ request = NoRequest
    /\ request' = params
    /\ UNCHANGED limiter
    /\ result' = Statistics(params)
    /\ UNCHANGED <<now, ticks, app, db, mqtt, opcua, task, attempts, failures,
                   receipts, rest, response, logged, feed>>

\* ---------------------------------------- POST /data/anomaly-detection

MinTotal == 10
MinGroup == 5
TopK == 50

\* The points of the analysis: the rows of the lookback window that pass
\* the filters (an empty list does not filter).
DataPoints(req) ==
    {i \in Rows :
        /\ sensor_data[i].timestamp >= now - req.lookback_hours * SecondsPerHour
        /\ req.equipment_ids # {} => sensor_data[i].equipment_id \in req.equipment_ids
        /\ req.sensor_types # {} => sensor_data[i].sensor_type \in req.sensor_types}

\* The characters of the identifiers the stores hold (Equipment.equipment_id
\* and Sensor.type are free text).
Characters(id) ==
    CASE id = "e1" -> <<"e", "1">>
      [] id = "e2" -> <<"e", "2">>
      [] id = "temperature" ->
            <<"t", "e", "m", "p", "e", "r", "a", "t", "u", "r", "e">>
      [] id = "line" -> <<"l", "i", "n", "e">>
      [] id = "line_a" -> <<"l", "i", "n", "e", "_", "a">>
      [] id = "temp" -> <<"t", "e", "m", "p">>
      [] id = "a_temp" -> <<"a", "_", "t", "e", "m", "p">>

\* key = f"{point.equipment.equipment_id}_{point.sensor.type}"
GroupKey(i) ==
    Characters(sensor_data[i].equipment_id) \o <<"_">>
        \o Characters(sensor_data[i].sensor_type)

\* grouped_data[key]: the points whose key is point i's.
GroupOf(i, P) == {j \in P : GroupKey(j) = GroupKey(i)}

\* Faulty variant of Analysed: every group is analysed, whatever its size.
AnalysedWhateverSize(G) == TRUE

\* `if len(points) < 5: continue`
Analysed(G) == Cardinality(G) >= MinGroup

RECURSIVE SumSquares(_)
SumSquares(I) ==
    IF I = {} THEN 0
    ELSE LET i == CHOOSE x \in I : TRUE
         IN sensor_data[i].value * sensor_data[i].value + SumSquares(I \ {i})

\* np.mean and np.std (population, ddof = 0) of a group of n values with
\* sum S and sum of squares Q, in exact arithmetic and scaled by n:
\* n * |value - mean| = |n * value - S| and (n * std)^2 = n * Q - S^2.
ScaledDeviation(i, G) ==
    LET d == Cardinality(G) * sensor_data[i].value - SumOf(G)
    IN IF d >= 0 THEN d ELSE -d
ScaledVariance(G) == Cardinality(G) * SumSquares(G) - SumOf(G) * SumOf(G)

\* Faulty variant of Exceeds: a deviation equal to the threshold counts.
ExceedsOrEquals(i, G, multiplier) ==
    ScaledDeviation(i, G) * ScaledDeviation(i, G)
        >= multiplier * multiplier * ScaledVariance(G)

\* abs(point.value - mean_val) > threshold, threshold = multiplier * std_val
\* (multiplier >= 0): compared on the squares.
Exceeds(i, G, multiplier) ==
    ScaledDeviation(i, G) * ScaledDeviation(i, G)
        > multiplier * multiplier * ScaledVariance(G)

\* The points appended to anomalies.
Anomalous(P, multiplier) ==
    {i \in P : Analysed(GroupOf(i, P)) /\ Exceeds(i, GroupOf(i, P), multiplier)}

\* "deviation": abs(point.value - mean_val) / std_val, kept as the fraction
\* of the squares; the division is one by zero when std_val is 0.
Deviation(i, G) ==
    Fraction(ScaledDeviation(i, G) * ScaledDeviation(i, G), ScaledVariance(G))
DividesByZero(i, G) == ScaledVariance(G) = 0

\* x > y for two deviations with non-zero denominators.
Greater(x, y) == x.num * y.den > y.num * x.den

\* Faulty variant of Severity: a deviation of exactly 3 sigma is HIGH.
SeverityFromThreeSigma(i, G) ==
    IF ExceedsOrEquals(i, G, 3) THEN "HIGH" ELSE "MEDIUM"

\* "severity": "HIGH" if abs(point.value - mean_val) > 3 * std_val
\*             else "MEDIUM"
Severity(i, G) == IF Exceeds(i, G, 3) THEN "HIGH" ELSE "MEDIUM"

\* The entry appended for point i (row: the SensorData row it is built of).
Anomaly(i, P) ==
    [row |-> i,
     severity |-> Severity(i, GroupOf(i, P)),
     equipment_id |-> sensor_data[i].equipment_id,
     sensor_type |-> sensor_data[i].sensor_type,
     value |-> sensor_data[i].value,
     deviation |-> Deviation(i, GroupOf(i, P)),
     timestamp |-> sensor_data[i].timestamp]

Least(I) == CHOOSE i \in I : \A j \in I : i <= j

\* The order in which the entries are appended: the groups in the order of
\* their first point, the points of a group in the order of the query.
RECURSIVE Appended(_, _)
Appended(A, P) ==
    IF A = {} THEN <<>>
    ELSE LET first(i) == Least(GroupOf(i, P))
             i == CHOOSE x \in A :
                     \A y \in A : \/ first(x) < first(y)
                                  \/ first(x) = first(y) /\ x <= y
         IN <<Anomaly(i, P)>> \o Appended(A \ {i}, P)

\* anomalies.sort(key=lambda x: x["deviation"], reverse=True): a stable
\* sort, entries of equal deviation keep their order.
RECURSIVE Insert(_, _)
Insert(sorted, x) ==
    IF sorted = <<>> THEN <<x>>
    ELSE IF Greater(x.deviation, Head(sorted).deviation)
    THEN <<x>> \o sorted
    ELSE <<Head(sorted)>> \o Insert(Tail(sorted), x)

RECURSIVE SortedDescending(_)
SortedDescending(entries) ==
    IF entries = <<>> THEN <<>>
    ELSE Insert(SortedDescending(SubSeq(entries, 1, Len(entries) - 1)),
                entries[Len(entries)])

\* anomalies[:k]
Take(entries, k) ==
    IF Len(entries) <= k THEN entries ELSE SubSeq(entries, 1, k)

\* Faulty variant of Ranked: the list is cut before it is sorted.
RankedAfterCut(entries, k) == SortedDescending(Take(entries, k))

\* The sort and the cut of the reply.
Ranked(entries, k) == Take(SortedDescending(entries), k)

NoMessage == "<absent>"

\* Faulty variant of InsufficientData: the reply of an analysis that found
\* nothing.
InsufficientDataAsEmptyAnalysis(req, P, k) ==
    [endpoint |-> "anomaly", status |-> 200,
     keys |-> {"analysis_period", "threshold_multiplier",
               "total_points_analyzed", "anomalies_detected", "anomalies"},
     message |-> NoMessage, total_points_analyzed |-> Cardinality(P),
     anomalies_detected |-> 0, anomalies |-> <<>>,
     division_by_zero |-> FALSE, cap |-> k]

\* The reply when fewer than 10 points match: a message and an empty list.
InsufficientData(req, P, k) ==
    [endpoint |-> "anomaly", status |-> 200,
     keys |-> {"message", "anomalies"},
     message |-> "Insufficient data for anomaly detection",
     total_points_analyzed |-> 0, anomalies_detected |-> 0,
     anomalies |-> <<>>, division_by_zero |-> FALSE, cap |-> k]

\* The reply of detect_anomalies with the list cut to k entries.
Detect(req, k) ==
    LET P == DataPoints(req)
        A == Anomalous(P, req.threshold_multiplier)
    IN IF Cardinality(P) < MinTotal THEN InsufficientData(req, P, k)
       ELSE [endpoint |-> "anomaly", status |-> 200,
             keys |-> {"analysis_period", "threshold_multiplier",
                       "total_points_analyzed", "anomalies_detected",
                       "anomalies"},
             message |-> NoMessage,
             total_points_analyzed |-> Cardinality(P),
             anomalies_detected |-> Cardinality(A),
             anomalies |-> Ranked(Appended(A, P), k),
             division_by_zero |-> \E i \in A : DividesByZero(i, GroupOf(i, P)),
             cap |-> k]

\* POST /data/anomaly-detection.  The endpoint only reads; one request per
\* store is examined.  k is the cap of the reply's list: the program's 50,
\* and 1 so that a list of the model's size is cut.
detect_anomalies(req, k) ==
    /\ request = NoRequest
    /\ request' = req
    /\ UNCHANGED limiter
    /\ result' = Detect(req, k)
    /\ UNCHANGED <<now, ticks, app, db, mqtt, opcua, task, attempts, failures,
                   receipts, rest, response, logged, feed>>

\* -------------------------------------------------------- specification

\* The service with its transports up: startup, deliveries of both adapters
\* and the REST requests.  Every subscribe call of a successful MQTT connect
\* succeeds.
Next ==
    \/ Tick
    \/ \E ok \in BOOLEAN : MqttConnect(ok, SensorTypes)
    \/ \E ok \in BOOLEAN, sub \in BOOLEAN : OpcuaConnect(ok, sub)
    \/ MqttDeliver
    \/ OpcuaNotify
    \/ \E a \in Adapters : StoreStamp(a)
    \/ \E a \in Adapters : StoreCommit(a)
    \/ \E e \in EquipmentIds : create_equipment(e)
    \/ \E e \in EquipmentIds, s \in SensorTypes : create_sensor(e, s)
    \/ \E e \in EquipmentIds, active \in UpdateValues : update_equipment(e, active)
    \/ \E e \in EquipmentIds : delete_equipment(e)
    \/ \E e \in EquipmentIds : connect_equipment(e)
    \/ get_equipment_health

Spec == Init /\ [][Next]_vars

\* The adapters' lifecycle under transport failures: startup with failing
\* connects and subscribes, a breaking message stream, shutdown, the
\* deliveries and the service health report.
LifecycleNext ==
    \/ Tick
    \/ \E ok \in BOOLEAN, subs \in SUBSET SensorTypes : MqttConnect(ok, subs)
    \/ \E ok \in BOOLEAN, sub \in BOOLEAN : OpcuaConnect(ok, sub)
    \/ MqttStreamError
    \/ \E okM \in BOOLEAN, okO \in BOOLEAN : Shutdown(okM, okO)
    \/ MqttDeliver
    \/ OpcuaNotify
    \/ \E a \in Adapters : StoreStamp(a)
    \/ \E a \in Adapters : StoreCommit(a)
    \/ health_check

\* The steps the program takes by itself: the startup's connects, a running
\* handler's next step, the clock.  Transport failures, deliveries, shutdown
\* and requests are the environment's.
ProgramStep ==
    \/ Tick
    \/ \E ok \in BOOLEAN, subs \in SUBSET SensorTypes : MqttConnect(ok, subs)
    \/ \E ok \in BOOLEAN, sub \in BOOLEAN : OpcuaConnect(ok, sub)
    \/ \E a \in Adapters : StoreStamp(a)
    \/ \E a \in Adapters : StoreCommit(a)

\* The event loop keeps running: a step the program can take is taken.
LifecycleSpec == Init /\ [][LifecycleNext]_vars /\ WF_vars(ProgramStep)

\* The ingestion pipeline: both transports connect, events of every kind
\* arrive, and the store may fail at either commit.  The clock stands still:
\* an event's own timestamp differs from its arrival time by its value.
IngestNext ==
    \/ MqttConnect(TRUE, SensorTypes)
    \/ OpcuaConnect(TRUE, TRUE)
    \/ MqttPublish
    \/ OpcuaPublish
    \/ MqttNext
    \/ OpcuaNext
    \/ \E a \in Adapters : StoreStamp(a)
    \/ \E a \in Adapters : StoreCommit(a)
    \/ \E a \in Adapters : StoreCommitFault(a)

\* The event loop runs every handler that is ready: a delivered event is
\* taken, a handler that has started runs to its end.
IngestFairness ==
    /\ WF_vars(MqttNext)
    /\ WF_vars(OpcuaNext)
    /\ \A a \in Adapters : WF_vars(StoreStamp(a))
    /\ \A a \in Adapters : WF_vars(StoreCommit(a) \/ StoreCommitFault(a))

IngestSpec == Init /\ [][IngestNext]_vars /\ IngestFairness

\* The quality fields MQTT payloads carry: none, the three of the data
\* model, and other text.
Qualities == {NoQuality, "GOOD", "BAD", "UNCERTAIN", "good", "EXCELLENT", ""}

QualityMessages ==
    {Message(e, "temperature", "object", NumValue(v), NoTimestamp, q) :
        e \in EquipmentIds, v \in Values, q \in Qualities}

\* The service ingesting payloads of every quality field.
QualityNext ==
    \/ MqttConnect(TRUE, SensorTypes)
    \/ OpcuaConnect(TRUE, TRUE)
    \/ MqttReceive(QualityMessages)
    \/ OpcuaNotify
    \/ \E a \in Adapters : StoreStamp(a)
    \/ \E a \in Adapters : StoreCommit(a)

QualitySpec == Init /\ [][QualityNext]_vars

\* The service started over an empty registry: the transports connect, the
\* equipment and their sensors are registered afterwards, events arrive.
RegistryInit == Startup({}, {})

RegistryNext ==
    \/ MqttConnect(TRUE, SensorTypes)
    \/ OpcuaConnect(TRUE, TRUE)
    \/ \E e \in EquipmentIds : create_equipment(e)
    \/ \E e \in EquipmentIds, s \in SensorTypes : create_sensor(e, s)
    \/ MqttDeliver
    \/ OpcuaNotify
    \/ \E a \in Adapters : StoreStamp(a)
    \/ \E a \in Adapters : StoreCommit(a)

RegistrySpec == RegistryInit /\ [][RegistryNext]_vars

\* The application serving data requests over a store that holds rows: the
\* equipment ids and the (equipment, sensor type) pairs registered are
\* given, the transports stay idle.
StoredOf(ids, registered, rows) ==
    /\ now = 0
    /\ ticks = 0
    /\ app = "running"
    /\ equipment = [e \in ids |-> Registered(e)]
    /\ sensors = registered
    /\ sensor_data = rows
    /\ mqtt_is_connected = TRUE
    /\ mqtt_loop = "running"
    /\ subscribed_topics = SensorTypes
    /\ opcua_is_connected = TRUE
    /\ opcua_subscription = FALSE
    /\ monitored_nodes = [n \in NodeIds |-> NoNode]
    /\ task = [a \in Adapters |-> IdleTask("", "", "none")]
    /\ receipts = [e \in ids |-> NoHeartbeat]
    /\ attempts = [a \in Adapters |-> 1]
    /\ failures = [a \in Adapters |-> 0]
    /\ requests = 0
    /\ connect_signalled = {}
    /\ response = NoResponse
    /\ logged = [a \in Adapters |-> NoLog]
    /\ inbox = [a \in Adapters |-> <<>>]
    /\ published = [a \in Adapters |-> 0]
    /\ current = [a \in Adapters |-> 0]
    /\ dropped = [a \in Adapters |-> FALSE]
    /\ request = NoRequest
    /\ result = NoResult
    /\ rate_requests = [c \in ClientIps |-> <<>>]
    /\ client_ip = NoClient

\* Both equipment of the model and their sensors are registered.
Stored(rows) == StoredOf(EquipmentIds, EquipmentIds \X SensorTypes, rows)

\* A set of rows in some insertion order.
RECURSIVE SeqOf(_)
SeqOf(S) ==
    IF S = {} THEN <<>>
    ELSE LET r == CHOOSE x \in S : TRUE IN <<r>> \o SeqOf(S \ {r})

\* The readings the queried stores hold: values 1 and 3 of both qualities at
\* 10:00:00, 10:00:59 and 10:01:00 (seconds 0, 59, 60) of one equipment,
\* and a reading of another.
QueryRows ==
    {Reading("e1", "temperature", v, t, q, "MQTT") :
        v \in {1, 3}, t \in {0, 59, 60}, q \in {"GOOD", "BAD"}}
    \cup {Reading("e2", "temperature", 1, 0, "GOOD", "MQTT")}

QueryInit ==
    \E S \in SUBSET QueryRows : Cardinality(S) <= MaxRows /\ Stored(SeqOf(S))

\* The request bodies: every aggregation, the five documented intervals and
\* the unit name "week", with and without an equipment filter and an end
\* time.
Queries ==
    [endpoint : {"query"},
     interval : {Text1m, Text5m, Text15m, Text1h, Text1d, TextWeek},
     equipment_ids : {{}, {"e1"}}, sensor_types : {{}}, start_time : {NoTime},
     end_time : {NoTime, 59},
     aggregation : {"raw", "avg", "min", "max", "count"}]

QueryNext == \E query \in Queries : query_sensor_data(query)

QuerySpec == QueryInit /\ [][QueryNext]_vars

\* k copies of a row.
Copies(row, k) == [i \in 1..k |-> row]

\* The readings of one equipment in an analysed store: `same` readings of
\* value 1 and `outliers` readings of value 10 inside the lookback window
\* (the values 10 and 100 in tenths, which keeps the products of the
\* deviations small), and possibly a reading of value 10 two hours old.
GroupRows(e, same, outliers, old) ==
    Copies(Reading(e, "temperature", 1, 0, "GOOD", "MQTT"), same)
    \o Copies(Reading(e, "temperature", 10, 0, "GOOD", "MQTT"), outliers)
    \o Copies(Reading(e, "temperature", 10, -(2 * SecondsPerHour), "GOOD",
                      "MQTT"),
              IF old THEN 1 ELSE 0)

AnomalyInit ==
    \E s1, s2 \in 0..MaxSame, o1, o2 \in 0..MaxOutliers, old1, old2 \in BOOLEAN :
       Stored(GroupRows("e1", s1, o1, old1) \o GroupRows("e2", s2, o2, old2))

\* The request bodies: a lookback of one hour, multipliers 0, 1 and 2, with
\* and without an equipment filter.
AnomalyRequests ==
    [endpoint : {"anomaly"},
     equipment_ids : {{}, {"e1"}},
     sensor_types : {{}},
     lookback_hours : {1},
     threshold_multiplier : {0, 1, 2}]

AnomalyNext ==
    \E req \in AnomalyRequests, k \in {1, TopK} : detect_anomalies(req, k)

AnomalySpec == AnomalyInit /\ [][AnomalyNext]_vars

\* The readings of sensor s of equipment e: `same` readings of value 1 and
\* `outliers` readings of value 10, all inside the lookback window.
SensorRows(e, s, same, outliers) ==
    Copies(Reading(e, s, 1, 0, "GOOD", "MQTT"), same)
    \o Copies(Reading(e, s, 10, 0, "GOOD", "MQTT"), outliers)

\* Stores of two equipment whose ids and sensor types hold an underscore:
\* equipment "line_a" with a sensor of type "temp", and equipment "line"
\* with a sensor of type "a_temp".
PartitionInit ==
    \E s1, s2 \in 0..MaxSame, o1, o2 \in 0..MaxOutliers :
       StoredOf({"line_a", "line"},
                {<<"line_a", "temp">>, <<"line", "a_temp">>},
                SensorRows("line_a", "temp", s1, o1)
                \o SensorRows("line", "a_temp", s2, o2))

PartitionRequests ==
    [endpoint : {"anomaly"},
     equipment_ids : {{}, {"line"}},
     sensor_types : {{}},
     lookback_hours : {1},
     threshold_multiplier : {0, 1, 2}]

PartitionNext ==
    \E req \in PartitionRequests, k \in {1, TopK} : detect_anomalies(req, k)

PartitionSpec == PartitionInit /\ [][PartitionNext]_vars

\* Stores of one sensor holding a steady signal of value 1 and a few
\* readings of value 2: with one such reading among n, its deviation is
\* sqrt(n - 1) sigma, which is 3 sigma at n = 10.
SeverityInit ==
    \E same \in 0..MaxSteady, outliers \in 0..MaxOutliers :
       Stored(Copies(Reading("e1", "temperature", 1, 0, "GOOD", "MQTT"), same)
              \o Copies(Reading("e1", "temperature", 2, 0, "GOOD", "MQTT"),
                        outliers))

SeveritySpec == SeverityInit /\ [][AnomalyNext]_vars

\* The service with everything that ends or breaks a connection: the
\* steps of Spec, a breaking message stream and the shutdown's disconnects.
ConnectivityNext ==
    \/ Next
    \/ MqttStreamError
    \/ \E okM \in BOOLEAN, okO \in BOOLEAN : Shutdown(okM, okO)

ConnectivitySpec == Init /\ [][ConnectivityNext]_vars

\* The connection metadata an OPC UA equipment declares: no node, or the
\* server's node for its temperature sensor.
NodeConfigs == {<<>>, <<[node_id |-> "n1", sensor_type |-> "temperature"]>>}

\* Both equipment are OPC UA equipment with a sensor, and each declares its
\* nodes; the same node may be declared by both.
MonitorInit ==
    \E declared \in [EquipmentIds -> NodeConfigs] :
       StartupOver([e \in EquipmentIds |->
                       [NewEquipment EXCEPT !.protocol = "OPC_UA",
                                            !.connection_config = declared[e]]],
                   EquipmentIds \X SensorTypes)

MonitorNext ==
    \/ MqttConnect(TRUE, SensorTypes)
    \/ OpcuaConnect(TRUE, TRUE)
    \/ MqttDeliver
    \/ OpcuaNotify
    \/ \E a \in Adapters : StoreStamp(a)
    \/ \E a \in Adapters : StoreCommit(a)

MonitorSpec == MonitorInit /\ [][MonitorNext]_vars

\* The requests of the data endpoints served next to the ingestion.
StoreQueries ==
    [endpoint : {"query"}, interval : {Text1h}, equipment_ids : {{}},
     sensor_types : {{}}, start_time : {NoTime}, end_time : {NoTime},
     aggregation : {"raw", "avg"}]

StatisticsRequests ==
    [sensor_type : {NoFilter}, endpoint : {"statistics"},
     equipment_id : {NoFilter, "e1"}, hours : {24}]

\* A data endpoint is served: the application runs and no handler is in the
\* middle of its run.
DataRequest ==
    /\ app = "running"
    /\ LoopIdle
    /\ \/ \E query \in StoreQueries : query_sensor_data(query)
       \/ \E params \in StatisticsRequests : get_data_statistics(params)
       \/ \E req \in AnomalyRequests : detect_anomalies(req, TopK)

\* Every operation that reaches the store: the ingestion of both adapters,
\* the registry and monitoring endpoints and the data endpoints.
StoreNext ==
    \/ MqttConnect(TRUE, SensorTypes)
    \/ OpcuaConnect(TRUE, TRUE)
    \/ MqttDeliver
    \/ OpcuaNotify
    \/ \E a \in Adapters : StoreStamp(a)
    \/ \E a \in Adapters : StoreCommit(a)
    \/ \E e \in EquipmentIds : create_equipment(e)
    \/ \E e \in EquipmentIds, s \in SensorTypes : create_sensor(e, s)
    \/ \E e \in EquipmentIds, active \in UpdateValues : update_equipment(e, active)
    \/ \E e \in EquipmentIds : delete_equipment(e)
    \/ get_equipment_health
    \/ \E found \in BOOLEAN : acknowledge_alert(found)
    \/ DataRequest

StoreSpec == Init /\ [][StoreNext]_vars

\* --------------------------------------------------------------- claims

\* The registry resolves the hints (e, s): the equipment and its sensor exist.
Resolves(e, s) ==
    /\ e \in EquipmentIds
    /\ equipment[e].exists
    /\ <<e, s>> \in sensors

\* This step is adapter a's handler taking an event.
Delivered(a) == task[a].pc = "idle" /\ task'[a] # task[a]

\* This step is adapter a's handler finishing the ingest of its event.
Committed(a) ==
    task[a].pc = "commit" /\ task'[a].pc = "idle" /\ task'[a].outcome = "stored"

HasReading(e) ==
    \E i \in 1..Len(sensor_data) : sensor_data[i].equipment_id = e

\* C1: a resolvable event handed to _store_sensor_data of either adapter
\* appends exactly one Reading, carrying the event's value, timestamp and
\* quality, and the ingest ends with its equipment connected and a heartbeat
\* not older than the event's receipt time.
C1_IngestStep(a) ==
    /\ (Delivered(a) /\ Resolves(task'[a].equipment_id, task'[a].sensor_type))
          => /\ task'[a].pc = "heartbeat"
             /\ Len(sensor_data') = Len(sensor_data) + 1
             /\ SubSeq(sensor_data', 1, Len(sensor_data)) = sensor_data
             /\ LET r == sensor_data'[Len(sensor_data')]
                IN /\ r.equipment_id = task'[a].equipment_id
                   /\ r.sensor_type = task'[a].sensor_type
                   /\ r.value = task'[a].value
                   /\ r.timestamp = task'[a].timestamp
                   /\ r.quality = task'[a].quality
    /\ (Running(a) /\ task'[a] # task[a]) => sensor_data' = sensor_data
    /\ Committed(a)
          => LET row == equipment'[task[a].equipment_id]
             IN /\ row.is_connected
                /\ row.last_heartbeat >= task[a].recv
    /\ (task[a].pc = "heartbeat" /\ task'[a] # task[a]) => task'[a].pc = "commit"
    /\ (task[a].pc = "commit" /\ task'[a] # task[a]) => Committed(a)

C1_IngestStoresOneReading == [][\A a \in Adapters : C1_IngestStep(a)]_vars

\* Both adapters have ingested an event, the MQTT one with its own timestamp.
C1_Witness ==
    /\ \A a \in Adapters : task[a].pc = "idle" /\ task[a].outcome = "stored"
    /\ \E i \in 1..Len(sensor_data) :
          sensor_data[i].source_protocol = "MQTT" /\ sensor_data[i].quality = "BAD"
    /\ \E i \in 1..Len(sensor_data) : sensor_data[i].source_protocol = "OPC_UA"
    /\ now > 0

\* C2: an event whose equipment hint or channel hint does not resolve ends
\* with an identity outcome (equipment or sensor not found), and the stored
\* Readings and every Equipment's connected flag and heartbeat stay as they
\* were.
C2_UnresolvedStep(a) ==
    (/\ Delivered(a)
     /\ task'[a].equipment_id \in EquipmentIds
     /\ ~Resolves(task'[a].equipment_id, task'[a].sensor_type))
        => /\ task'[a].pc = "idle"
           /\ task'[a].outcome \in {"equipment_not_found", "sensor_not_found"}
           /\ sensor_data' = sensor_data
           /\ \A e \in EquipmentIds :
                 /\ equipment'[e].is_connected = equipment[e].is_connected
                 /\ equipment'[e].last_heartbeat = equipment[e].last_heartbeat

C2_UnresolvedIdentityChangesNothing ==
    [][\A a \in Adapters : C2_UnresolvedStep(a)]_vars

\* An event for a registered equipment without a sensor was dropped while
\* the store held a Reading and an equipment was connected.
C2_Witness ==
    /\ task["mqtt"].pc = "idle"
    /\ task["mqtt"].outcome = "sensor_not_found"
    /\ Len(sensor_data) > 0
    /\ \E e \in EquipmentIds : equipment[e].is_connected

\* C3 (as stated): an Equipment seen connected has at least one persisted
\* Reading.
C3_ConnectedHasReading ==
    \A e \in EquipmentIds : equipment[e].is_connected => HasReading(e)

\* C3 (amended): an Equipment seen connected has at least one persisted
\* Reading or was the target of an accepted connect request; and while an
\* ingest is between its two commits, its Reading is already in the store.
C3_ConnectedHasReadingOrSignal ==
    /\ \A e \in EquipmentIds :
          equipment[e].is_connected => HasReading(e) \/ e \in connect_signalled
    /\ \A a \in Adapters :
          Running(a) =>
             \E i \in 1..Len(sensor_data) :
                /\ sensor_data[i].equipment_id = task[a].equipment_id
                /\ sensor_data[i].value = task[a].value
                /\ sensor_data[i].timestamp = task[a].timestamp

\* An equipment is connected by an ingest alone.
C3_Witness ==
    \E e \in EquipmentIds :
       equipment[e].is_connected /\ e \notin connect_signalled /\ HasReading(e)

\* C4: once the ingests of both adapters for an equipment have completed, no
\* heartbeat update is lost: the equipment is connected and its heartbeat is
\* the latest clock reading any ingest took for it (a later connect request
\* may only move it forward).
C4_NoHeartbeatLost ==
    LoopIdle =>
       \A e \in EquipmentIds :
          receipts[e] # NoHeartbeat =>
             /\ equipment[e].is_connected
             /\ equipment[e].last_heartbeat >= receipts[e]
             /\ e \notin connect_signalled
                   => equipment[e].last_heartbeat = receipts[e]

\* Both adapters have ingested for the same equipment, at different times.
C4_Witness ==
    /\ LoopIdle
    /\ \A a \in Adapters :
          task[a].outcome = "stored" /\ task[a].equipment_id = "e1"
    /\ Len(sensor_data) >= 2
    /\ sensor_data[1].source_protocol # sensor_data[2].source_protocol
    /\ "e1" \notin connect_signalled
    /\ equipment["e1"].last_heartbeat > 0

\* C5: every stored Reading references an Equipment and a Sensor that exist
\* and that were active when the Reading was created (sensors are never
\* deactivated: no operation clears Sensor.is_active).
C5_ReadingsReferenceActive ==
    /\ [](\A i \in 1..Len(sensor_data) :
             /\ equipment[sensor_data[i].equipment_id].exists
             /\ <<sensor_data[i].equipment_id, sensor_data[i].sensor_type>>
                   \in sensors)
    /\ [][Len(sensor_data') > Len(sensor_data) =>
             equipment[sensor_data'[Len(sensor_data')].equipment_id].is_active]_vars

\* C6: is_connected goes from false to true only in the step that ends an
\* ingest for that equipment or in a connect request for it.
C6_ConnectedOnlyByIngestOrSignal ==
    [][\A e \in EquipmentIds :
          (~equipment[e].is_connected /\ equipment'[e].is_connected)
             => \/ \E a \in Adapters : Committed(a) /\ task[a].equipment_id = e
                \/ e \notin connect_signalled /\ e \in connect_signalled']_vars

\* One equipment was connected by an ingest while another, created and then
\* deactivated or updated through the API, is still not connected.
C6_Witness ==
    /\ equipment["e1"].is_connected
    /\ "e1" \notin connect_signalled
    /\ equipment["e2"].exists
    /\ ~equipment["e2"].is_connected
    /\ requests >= 2

\* C7: the reported health is HEALTHY iff connected and the heartbeat is
\* younger than the staleness window, DEGRADED iff connected and not younger
\* (a missing heartbeat included), OFFLINE iff not connected.
C7_HealthDerivation ==
    \A e \in EquipmentIds :
       LET r == response.health[e]
           fresh == /\ r.last_heartbeat # NoHeartbeat
                    /\ response.timestamp - r.last_heartbeat < StalenessWindow
       IN r.health_status # "-" =>
             /\ r.health_status = "HEALTHY" <=> (r.is_connected /\ fresh)
             /\ r.health_status = "DEGRADED" <=> (r.is_connected /\ ~fresh)
             /\ r.health_status = "OFFLINE" <=> ~r.is_connected

\* C8: after a transport failure of an adapter (a failed connect, a broken
\* message stream) another connect attempt of that adapter eventually
\* follows, unless the application is shut down.  (The program computes no
\* retry delay, so the claim's bound on the delays has nothing to be stated
\* of.)
C8_RetriesNeverStop ==
    \A a \in Adapters :
       (failures[a] >= 1) ~> (attempts[a] >= 2 \/ app = "stopped")

IsConnected(a) == IF a = "mqtt" THEN mqtt_is_connected ELSE opcua_is_connected

\* C9: after a transport failure the adapter's is_connected flag is false,
\* and the service health report does not show the adapter as connected.
C9_FailureDisconnects ==
    \A a \in Adapters :
       failures[a] >= 1 => ~IsConnected(a) /\ ~response.services[a]

\* C10: a connect failure of one adapter does not end the application.
C10_ConnectFailureNotFatal == app # "failed"

\* ------------------------------------------- claims on the event handlers

\* The event at the head of adapter a's feed, and what it carries.
NextEvent(a) == Head(inbox[a])
EventValue(a, ev) == IF a = "mqtt" THEN ev.msg.value ELSE ev.value
EventEquipment(a, ev) ==
    IF a = "mqtt" THEN ev.msg.topic[2] ELSE monitored_nodes[ev.node].equipment_id
EventSensor(a, ev) ==
    IF a = "mqtt" THEN ev.msg.topic[3] ELSE monitored_nodes[ev.node].sensor_type

\* The event is valid and resolvable: it decodes, its value is a finite
\* number, its timestamp (if any) parses, and the registry has its equipment
\* and sensor.
ValidEvent(a, ev) ==
    /\ EventValue(a, ev).kind \in {"number", "numeric_string"}
    /\ a = "mqtt" => /\ ev.msg.body = "object"
                     /\ ev.msg.timestamp.kind \in {"absent", "iso"}
    /\ a = "opcua" => monitored_nodes[ev.node] # NoNode
    /\ Resolves(EventEquipment(a, ev), EventSensor(a, ev))

\* This step is adapter a's handler taking the next event of its feed.
Takes(a) == inbox[a] # <<>> /\ inbox'[a] = Tail(inbox[a])

\* C11: once an adapter has dropped an event, every valid, resolvable event
\* delivered to it is still taken by its handler and ingested (the handler
\* ends with the Reading stored and the equipment marked, unless the store
\* fails on that event itself).
C11_DropNeverHaltsLoop ==
    \A a \in Adapters : \A k \in 1..MaxEvents :
       (/\ inbox[a] # <<>>
        /\ NextEvent(a).id = k
        /\ ValidEvent(a, NextEvent(a))
        /\ dropped[a] \/ (task[a].pc = "idle" /\ task[a].outcome \in DropOutcomes))
       ~> (/\ current[a] = k
           /\ task[a].pc = "idle"
           /\ task[a].outcome \in {"stored", "store_error"})

\* Both adapters have dropped an event and ingested a later one.
C11_Witness ==
    \A a \in Adapters :
       dropped[a] /\ task[a].pc = "idle" /\ task[a].outcome = "stored"

\* C12: an event whose value is non-numeric, NaN or infinite is rejected as
\* a bad value by the handler that takes it: no Reading is stored and no
\* Equipment row changes, on both adapters.
C12_BadValueRejected ==
    [][\A a \in Adapters :
          (Takes(a) /\ EventValue(a, NextEvent(a)).kind
                          \in {"text", "list", "nan", "infinity"})
          => /\ task'[a].outcome = "bad_value"
             /\ sensor_data' = sensor_data
             /\ equipment' = equipment]_vars

\* C13: an MQTT event with a valid value and a resolvable identity is
\* ingested whatever its timestamp key holds (unless the store fails): the
\* Reading has the event's timestamp when it parses and the arrival time
\* when it is absent or does not parse, and quality GOOD when the quality
\* key is absent.
C13_TimestampAndQualityDefaults ==
    [][LET msg == NextEvent("mqtt").msg
       IN (/\ Takes("mqtt")
           /\ msg.body = "object"
           /\ msg.value.kind \in {"number", "numeric_string"}
           /\ Resolves(msg.topic[2], msg.topic[3])
           /\ task'["mqtt"].outcome # "store_error")
          => /\ Len(sensor_data') = Len(sensor_data) + 1
             /\ LET r == sensor_data'[Len(sensor_data')]
                IN /\ r.value = msg.value.num
                   /\ r.timestamp = IF msg.timestamp.kind = "iso"
                                    THEN msg.timestamp.t ELSE now
                   /\ r.quality = IF msg.quality = NoQuality THEN "GOOD"
                                  ELSE msg.quality]_vars

\* C20: every handler run that ends without having stored a Reading and
\* marked the equipment emits a log record (the program keeps no counters
\* or metrics of dropped events).
C20_NoSilentDrop ==
    [][\A a \in Adapters :
          (task'[a] # task[a] /\ task'[a].outcome \in DropOutcomes)
          => logged'[a] # NoLog]_vars

\* ------------------------------------------- claims on POST /data/query

SupportedIntervals == {Text1m, Text5m, Text15m, Text1h, Text1d}

\* The length of a supported interval in seconds.
IntervalSeconds(interval) ==
    CASE interval = Text1m -> 60
      [] interval = Text5m -> 300
      [] interval = Text15m -> 900
      [] interval = Text1h -> 3600
      [] interval = Text1d -> 86400

\* C14: for a supported interval the aggregation succeeds, and every
\* matching Reading is in exactly one row of the reply, the row of its
\* equipment, its sensor type and the bucket
\* floor(timestamp / interval) * interval; the reply has no other rows.
C14_Bucketing ==
    (/\ result.endpoint = "query"
     /\ request.aggregation # "raw"
     /\ request.interval \in SupportedIntervals)
    => LET width == IntervalSeconds(request.interval)
           M == {i \in Rows : Matches(i, request)}
           start(i) == sensor_data[i].timestamp
                          - (sensor_data[i].timestamp % width)
           of(i, row) == /\ row.equipment_id = sensor_data[i].equipment_id
                         /\ row.sensor_type = sensor_data[i].sensor_type
                         /\ row.time_bucket = start(i)
       IN /\ result.status = 200
          /\ \A i \in M : Cardinality({row \in result.data : of(i, row)}) = 1
          /\ \A row \in result.data : \E i \in M : of(i, row)

\* C15: in a reply of an aggregation, count is the number of the bucket's
\* readings of every quality, and avg, min and max are those of the
\* bucket's GOOD readings only.
C15_QualityPolicy ==
    (/\ result.endpoint = "query"
     /\ result.status = 200
     /\ request.aggregation # "raw")
    => \A row \in result.data :
          LET G == {i \in Rows :
                      /\ Matches(i, request)
                      /\ sensor_data[i].equipment_id = row.equipment_id
                      /\ sensor_data[i].sensor_type = row.sensor_type
                      /\ DateTrunc(TruncField(request.interval),
                                   sensor_data[i].timestamp).v = row.time_bucket}
              Good == {i \in G : sensor_data[i].quality = "GOOD"}
          IN CASE request.aggregation = "count" ->
                     row.value = Fraction(Cardinality(G), 1)
               [] Good = {} -> TRUE
               [] request.aggregation = "min" -> row.value = Fraction(MinOf(Good), 1)
               [] request.aggregation = "max" -> row.value = Fraction(MaxOf(Good), 1)
               [] OTHER -> row.value.num * Cardinality(Good)
                              = SumOf(Good) * row.value.den

\* ------------------------------- claims on POST /data/anomaly-detection

\* The reply lists the Reading of row i.
Reported(i) ==
    \E k \in 1..Len(result.anomalies) : result.anomalies[k].row = i

RECURSIVE SumSquaredDeviations(_, _)
SumSquaredDeviations(I, G) ==
    IF I = {} THEN 0
    ELSE LET i == CHOOSE x \in I : TRUE
             d == Cardinality(G) * sensor_data[i].value - SumOf(G)
         IN d * d + SumSquaredDeviations(I \ {i}, G)

\* |value - mean| > multiplier * sigma for row i in its group G, with sigma
\* the population standard deviation sqrt(sum (x - mean)^2 / n): on the
\* squares and multiplied by n^3, for a multiplier >= 0.
BeyondThreshold(i, G, multiplier) ==
    LET n == Cardinality(G)
        d == n * sensor_data[i].value - SumOf(G)
    IN n * d * d > multiplier * multiplier * SumSquaredDeviations(G, G)

\* The Readings the claim's rule makes anomalies of the request.
Anomalies(req) ==
    {i \in DataPoints(req) :
        LET G == GroupOf(i, DataPoints(req))
        IN Cardinality(G) >= 5 /\ BeyondThreshold(i, G, req.threshold_multiplier)}

\* C16: within a group of at least 5 samples of the lookback window, a
\* Reading is reported iff |value - mean| > threshold_multiplier * sigma;
\* no other Reading is reported (the program's cap of 50 entries).
C16_AnomalyIffBeyondThreshold ==
    (result.endpoint = "anomaly" /\ result.cap = TopK)
    => \A i \in Rows : Reported(i) <=> i \in Anomalies(request)

\* C16 as the program has it: when at least 10 Readings match in total and
\* the anomalies are no more than the cap of the reply, a Reading is
\* reported iff it is in a group of at least 5 samples and
\* |value - mean| > threshold_multiplier * sigma.
C16_AnomalyIffBeyondThresholdWhenAnalysed ==
    (/\ result.endpoint = "anomaly"
     /\ Cardinality(DataPoints(request)) >= 10
     /\ Cardinality(Anomalies(request)) <= result.cap)
    => \A i \in Rows : Reported(i) <=> i \in Anomalies(request)

\* The group [10, 10, 10, 10, 10, 100] (in tenths) is analysed with
\* multiplier 2 next to a group too small to be analysed, and exactly its
\* 100 is reported.
C16_Witness ==
    /\ result.endpoint = "anomaly"
    /\ request.threshold_multiplier = 2
    /\ Len(result.anomalies) = 1
    /\ \E i \in DataPoints(request) :
          LET G == GroupOf(i, DataPoints(request))
          IN /\ Reported(i)
             /\ sensor_data[i].value = 10
             /\ Cardinality(G) = 6
             /\ Cardinality({j \in G : sensor_data[j].value = 1}) = 5
    /\ \E j \in DataPoints(request) :
          /\ Cardinality(GroupOf(j, DataPoints(request))) < 5
          /\ sensor_data[j].value = 10

\* The values of the group are all equal.
Constant(G) == \A i, j \in G : sensor_data[i].value = sensor_data[j].value

C18_InsufficientDataIsExplicit ==
    result.endpoint = "anomaly"
    => IF Cardinality(DataPoints(request)) < 10
       THEN /\ "message" \in result.keys
            /\ result.message = "Insufficient data for anomaly detection"
       ELSE /\ "message" \notin result.keys
            /\ result.message = NoMessage

\* Some Readings match, but fewer than 10: the reply is the message.
C18_Witness ==
    /\ result.endpoint = "anomaly"
    /\ Cardinality(DataPoints(request)) \in 5..9
    /\ "message" \in result.keys
    /\ result.anomalies = <<>>

\* C19: the reply's list is in descending order of deviation, and no
\* anomaly left out by the cap has a greater deviation than a listed one.
C19_RankedBeforeCut ==
    result.endpoint = "anomaly"
    => LET P == DataPoints(request)
           A == Anomalous(P, request.threshold_multiplier)
           listed == result.anomalies
       IN /\ \A k, l \in 1..Len(listed) :
                k < l => ~Greater(listed[l].deviation, listed[k].deviation)
          /\ \A k \in 1..Len(listed) : \A j \in A :
                ~Reported(j)
                => ~Greater(Deviation(j, GroupOf(j, P)), listed[k].deviation)

\* The cap cut an anomaly of a smaller deviation than the listed one, which
\* was appended after it.
C19_Witness ==
    /\ result.endpoint = "anomaly"
    /\ result.cap = 1
    /\ Len(result.anomalies) = 1
    /\ \E j \in Anomalous(DataPoints(request), request.threshold_multiplier) :
          /\ ~Reported(j)
          /\ j < result.anomalies[1].row
          /\ Greater(result.anomalies[1].deviation,
                     Deviation(j, GroupOf(j, DataPoints(request))))

\* ------------------------------------------- claims on the partition

\* The Readings of row i's equipment and sensor among the points P.
SensorGroup(i, P) ==
    {j \in P : /\ sensor_data[j].equipment_id = sensor_data[i].equipment_id
               /\ sensor_data[j].sensor_type = sensor_data[i].sensor_type}

\* The Readings reported when every Reading is judged against the mean and
\* sigma of the Readings of its own equipment and sensor.
AnomaliesBySensor(req) ==
    {i \in DataPoints(req) :
        LET G == SensorGroup(i, DataPoints(req))
        IN Cardinality(G) >= 5 /\ BeyondThreshold(i, G, req.threshold_multiplier)}

\* C21: the groups of the detector are the (equipment, sensor) pairs: when
\* an analysis runs (and the cap of the reply is not reached), a Reading is
\* reported iff it is beyond the threshold of the mean and sigma of the
\* Readings of its own equipment and sensor; Readings of another equipment
\* or sensor never enter its baseline.
C21_PartitionBySensor ==
    (/\ result.endpoint = "anomaly"
     /\ Cardinality(DataPoints(request)) >= MinTotal
     /\ result.cap = TopK)
    => /\ \A i, j \in DataPoints(request) :
             j \in GroupOf(i, DataPoints(request))
             <=> j \in SensorGroup(i, DataPoints(request))
       /\ \A i \in Rows : Reported(i) <=> i \in AnomaliesBySensor(request)

\* ------------------------------------------- claims on the severity

\* The entry of the reply that lists the Reading of row i.
Entry(i) ==
    result.anomalies[CHOOSE k \in 1..Len(result.anomalies) :
                        result.anomalies[k].row = i]

\* score = |value - mean| / sigma for row i in its group G, on the squares:
\* score.num / score.den = n * d^2 / sum of the squared deviations, all
\* scaled by n^2 (d = n * value - sum of the group).
IsScore(score, i, G) ==
    LET n == Cardinality(G)
        d == n * sensor_data[i].value - SumOf(G)
    IN /\ score.den # 0
       /\ SumSquaredDeviations(G, G) # 0
       /\ score.num * SumSquaredDeviations(G, G) = n * d * d * score.den

\* C22: every reported anomaly is HIGH iff |value - mean| > 3 * sigma of
\* its group and MEDIUM otherwise, and its deviation score is
\* |value - mean| / sigma.
C22_SeverityAndScore ==
    result.endpoint = "anomaly"
    => \A i \in Rows :
          Reported(i)
          => LET G == SensorGroup(i, DataPoints(request))
             IN /\ Entry(i).severity \in {"HIGH", "MEDIUM"}
                /\ Entry(i).severity = "HIGH" <=> BeyondThreshold(i, G, 3)
                /\ IsScore(Entry(i).deviation, i, G)

\* A reply lists a Reading beyond 3 sigma of its group of eleven: HIGH.
C22_Witness ==
    /\ result.endpoint = "anomaly"
    /\ \E i \in Rows :
          /\ Reported(i)
          /\ Entry(i).severity = "HIGH"
          /\ sensor_data[i].value = 2
          /\ Cardinality(SensorGroup(i, DataPoints(request))) = 11

\* ------------------------------------- claims on the registry snapshot

\* The active OPC UA equipment whose connection metadata declares node n for
\* a sensor it has.
Declaring(n) ==
    {e \in EquipmentIds :
        /\ equipment[e].protocol = "OPC_UA"
        /\ equipment[e].exists
        /\ equipment[e].is_active
        /\ \E k \in 1..Len(equipment[e].connection_config) :
              /\ equipment[e].connection_config[k].node_id = n
              /\ <<e, equipment[e].connection_config[k].sensor_type>> \in sensors}

\* The event adapter a's handler takes in this step is one for a registered
\* identity: the equipment and sensor of an MQTT topic exist; every node of
\* the OPC UA server is declared by a registered equipment.
ForRegistered(a) ==
    /\ Delivered(a)
    /\ IF a = "mqtt"
       THEN Resolves(task'[a].equipment_id, task'[a].sensor_type)
       ELSE \A n \in NodeIds : Declaring(n) # {}

\* C23: an event that arrives once its Equipment and Sensor are in the
\* registry is resolved and its Reading stored, on both adapters, also when
\* the equipment was registered after the adapter connected.
C23_RegisteredLaterIsIngested ==
    [][\A a \in Adapters :
          ForRegistered(a)
          => /\ task'[a].pc = "heartbeat"
             /\ Len(sensor_data') = Len(sensor_data) + 1]_vars

\* ------------------------------------------- claims on the Readings

\* C24: the quality of every stored Reading is GOOD, BAD or UNCERTAIN,
\* whatever quality field the payloads carried.
C24_QualityInDomain ==
    \A i \in Rows : sensor_data[i].quality \in {"GOOD", "BAD", "UNCERTAIN"}

\* The value converts to no number: float(str(value)) raises ValueError.
NotNumeric(value) ==
    value.kind \notin {"number", "numeric_string", "nan", "infinity"}

\* C25: a data-change notification whose value converts to no number is
\* dropped: no Reading is stored, no Equipment row changes, the handler
\* returns and the adapter stays connected and subscribed; and a Reading
\* the OPC UA handler stores has quality GOOD and source protocol OPC_UA.
C25_NonNumericDropped ==
    [][Takes("opcua")
       => /\ NotNumeric(NextEvent("opcua").value)
             => /\ sensor_data' = sensor_data
                /\ equipment' = equipment
                /\ task'["opcua"].pc = "idle"
                /\ task'["opcua"].outcome \in {"bad_value", "unmonitored"}
                /\ opcua_is_connected' = opcua_is_connected
                /\ opcua_subscription' = opcua_subscription
                /\ app' = app
          /\ sensor_data' # sensor_data
             => /\ Len(sensor_data') = Len(sensor_data) + 1
                /\ sensor_data'[Len(sensor_data')].quality = "GOOD"
                /\ sensor_data'[Len(sensor_data')].source_protocol = "OPC_UA"]_vars

\* The OPC UA handler stored a Reading and then dropped a value that is no
\* number, with a warning.
C25_Witness ==
    /\ current["opcua"] = 2
    /\ task["opcua"].pc = "idle"
    /\ task["opcua"].outcome = "bad_value"
    /\ logged["opcua"] = "warning"
    /\ \E i \in Rows : sensor_data[i].source_protocol = "OPC_UA"

\* C26: the store is append-only: no step of any operation removes a stored
\* Reading or changes one of its fields; a step only adds Readings after
\* the stored ones.
C26_AppendOnly ==
    [][/\ Len(sensor_data') >= Len(sensor_data)
       /\ \A i \in 1..Len(sensor_data) : sensor_data'[i] = sensor_data[i]]_vars

\* A second Reading of a sensor was ingested, the sensor's equipment was
\* deactivated afterwards, and a data request was served.
C26_Witness ==
    /\ Len(sensor_data) = 2
    /\ sensor_data[1].equipment_id = sensor_data[2].equipment_id
    /\ sensor_data[1] # sensor_data[2]
    /\ ~equipment[sensor_data[1].equipment_id].is_active
    /\ result.endpoint # "none"

\* ------------------------------------------- claims on the health

\* C27: the equipment-health query leaves every Equipment's connected flag
\* and heartbeat and the stored Readings as they were; the status it reports
\* is held by its reply alone.
C27_HealthReadOnly ==
    [][get_equipment_health
       => /\ equipment' = equipment
          /\ sensor_data' = sensor_data
          /\ sensors' = sensors]_vars

\* The query reported a connected equipment DEGRADED, and the equipment is
\* still stored as connected.
C27_Witness ==
    /\ response.status = 200
    /\ \E e \in EquipmentIds :
          /\ response.health[e].health_status = "DEGRADED"
          /\ equipment[e].is_connected
          /\ HasReading(e)

\* C28: no step resets an Equipment's connected flag, and an Equipment
\* that was connected is never reported OFFLINE.
C28_ConnectedNeverReset ==
    [][\A e \in EquipmentIds :
          equipment[e].is_connected
          => /\ equipment'[e].is_connected
             /\ response'.health[e].health_status # "OFFLINE"]_vars

\* A connected equipment was deactivated and the adapters disconnected at
\* shutdown: it is still stored as connected.
C28_Witness ==
    /\ app = "stopped"
    /\ ~mqtt_is_connected
    /\ ~opcua_is_connected
    /\ \E e \in EquipmentIds :
          /\ equipment[e].is_connected
          /\ ~equipment[e].is_active

\* --------------------------------------- claims on the monitored nodes

\* Equipment e is an active OPC UA equipment whose connection metadata
\* declares node n for sensor type s, a sensor it has.
Declares(e, n, s) ==
    /\ equipment[e].exists
    /\ equipment[e].is_active
    /\ equipment[e].protocol = "OPC_UA"
    /\ <<e, s>> \in sensors
    /\ \E k \in 1..Len(equipment[e].connection_config) :
          /\ equipment[e].connection_config[k].node_id = n
          /\ equipment[e].connection_config[k].sensor_type = s

\* C29: a numeric data change of a node (the server of the model has one)
\* stores, for every active OPC UA equipment that declared the node when
\* the adapter connected, a Reading of that equipment and of the sensor type
\* it declared for the node, also when two equipment declare the node.
C29_ReadingForEveryDeclaringEquipment ==
    [][Delivered("opcua")
       => \A e \in EquipmentIds, n \in NodeIds, s \in SensorTypes :
             Declares(e, n, s)
             => \E i \in Len(sensor_data) + 1..Len(sensor_data') :
                   /\ sensor_data'[i].equipment_id = e
                   /\ sensor_data'[i].sensor_type = s
                   /\ sensor_data'[i].source_protocol = "OPC_UA"]_vars

\* ------------------------------------------------------ rate limiter

\* RateLimiterMiddleware.__init__
window_size == 60
max_requests == RATE_LIMIT_PER_MINUTE

\* The steps of time.time() between two requests, in seconds.
ElapseSteps == {1, window_size - 1}

\* A request as the middleware sees it: the addresses of its
\* X-Forwarded-For header (none: no header) and its peer address.
NoHost == "<no client>"
HttpRequests ==
    [forwarded : {<<>>, <<"10.0.0.2", "10.0.0.1">>},
     host : {"10.0.0.1", NoHost}]

\* _get_client_ip: the first address of X-Forwarded-For when the header is
\* there, else the peer address, else "unknown".
ClientIp(req) ==
    IF req.forwarded # <<>> THEN req.forwarded[1]
    ELSE IF req.host # NoHost THEN req.host
    ELSE "unknown"

\* _cleanup_old_requests with the bound of the window included.
CleanedUpInclusive(times, current_time) ==
    SelectSeq(times, LAMBDA req_time : req_time >= current_time - window_size)

\* _cleanup_old_requests: the recorded times after cutoff_time.
CleanedUp(times, current_time) ==
    SelectSeq(times, LAMBDA req_time : req_time > current_time - window_size)

\* dispatch: clean the client's list, answer 429 when it is full, else
\* record the request and call the application.  There is no await between
\* the cleanup and the append, so this runs as one step of the loop.
dispatch(req) ==
    LET ip == ClientIp(req)
        kept == CleanedUp(rate_requests[ip], now)
    IN /\ app = "running"
       /\ requests < MaxForwarded
       /\ client_ip' = ip
       /\ IF Len(kept) >= max_requests
          THEN /\ rate_requests' = [rate_requests EXCEPT ![ip] = kept]
               /\ response' = Reply(429)
               /\ UNCHANGED requests
          ELSE /\ rate_requests' = [rate_requests EXCEPT ![ip] = Append(kept, now)]
               /\ response' = Reply(200)
               /\ requests' = requests + 1
       /\ UNCHANGED <<now, ticks, app, db, mqtt, opcua, task, attempts, failures,
                      receipts, connect_signalled, logged, feed, analytics>>

\* time.time() advances between two requests.
Elapse ==
    /\ ticks < MaxElapsed
    /\ \E d \in ElapseSteps : now' = now + d
    /\ ticks' = ticks + 1
    /\ UNCHANGED <<app, db, mqtt, opcua, task, attempts, failures, receipts, rest,
                   response, logged, feed, analytics, limiter>>

RateNext ==
    \/ MqttConnect(TRUE, SensorTypes)
    \/ OpcuaConnect(TRUE, TRUE)
    \/ Elapse
    \/ \E req \in HttpRequests : dispatch(req)

RateSpec == Init /\ [][RateNext]_vars

\* ------------------------------------------- claims on the rate limiter

\* The recorded requests of client c that lie within the window ending at
\* time t.
InWindow(c, t) ==
    {i \in 1..Len(rate_requests[c]) : rate_requests[c][i] > t - window_size}

\* The middleware dispatched a request in this step.
Dispatching == now' = now /\ app = "running" /\ app' = "running"

\* C30: at every time no client has more than max_requests recorded
\* requests within the last 60 s; a request of a client whose window holds
\* max_requests entries is answered 429, is not recorded and is not
\* forwarded; a request of a client whose window holds fewer is recorded
\* and forwarded, so the client is accepted again once its requests have
\* aged out.
C30_WindowNeverExceeded ==
    /\ [](\A c \in ClientIps : Cardinality(InWindow(c, now)) <= max_requests)
    /\ [][Dispatching =>
            LET c == client_ip'
                held == Cardinality(InWindow(c, now))
            IN IF held >= max_requests
               THEN /\ response'.status = 429
                    /\ requests' = requests
                    /\ Len(rate_requests'[c]) <= Len(rate_requests[c])
                    /\ \A i \in 1..Len(rate_requests'[c]) :
                          \E j \in 1..Len(rate_requests[c]) :
                             rate_requests'[c][i] = rate_requests[c][j]
               ELSE /\ response'.status = 200
                    /\ requests' = requests + 1
                    /\ Len(rate_requests'[c]) = held + 1
                    /\ rate_requests'[c][held + 1] = now]_vars

\* A client that filled its window one window ago was recorded again.
C30_Witness ==
    \E c \in ClientIps :
       /\ Len(rate_requests[c]) = max_requests
       /\ rate_requests[c][1] >= window_size
       /\ client_ip = c
       /\ response.status = 200
       /\ requests > max_requests
====
